---- MODULE Spec2Model ----
(***************************************************************************)
(* The screen controller of the JSONL viewer (model.go): the Bubble Tea    *)
(* model's fields are the state, Update and its key handlers are the       *)
(* actions.  Go strings are sequences of one-character strings; a key      *)
(* event is the string msg.String() gives ("j", "ctrl+d", "enter", ...).    *)
(***************************************************************************)
EXTENDS Integers, Sequences, FiniteSets, TLC

VARIABLES state, files, fileIndex, rawLines, messages, messageIndex,
          viewMode, cursorLine, scrollOffset, messageScrollOffset,
          searchQuery, searchInput, searchMode, numBuffer, lastKey,
          width, height, ready, err, cmd,
          input, output

vars == <<state, files, fileIndex, rawLines, messages, messageIndex,
          viewMode, cursorLine, scrollOffset, messageScrollOffset,
          searchQuery, searchInput, searchMode, numBuffer, lastKey,
          width, height, ready, err, cmd, input, output>>

-----------------------------------------------------------------------------
(* Bounds of the model *)

\* lines of the decoded JSON text of the larger transcript
NumLines == 4
\* messages parsed from the larger transcript
NumMessages == 2
\* terminal sizes delivered by resize events
Heights == {3, 7, 8}
Widths == {8, 80}
\* bytes of the longest styled line given to the search overlay
MaxLineLen == 4
\* bytes of the longest styled line given to the truncation
MaxStyledLen == 5
\* pieces of the longest line given to the JSON highlighter
MaxPieces == 4
\* the largest width a line is truncated and padded to
MaxWidth == 3
\* content blocks of the longest message given to the message renderer
MaxBlocks == 2
\* pieces of the longest text given to the JSON decoders
MaxTextPieces == 4

\* the queries the user types into the search prompt, key by key: one that
\* matches lines in either case, and one that matches no line; their
\* characters are keys the viewer binds
SearchInputs == { <<"N", "n">>, <<"g">> }

\* the counts the user types, digit by digit: two plain counts, the
\* largest int (2^63 - 1) and the first numeral strconv.Atoi rejects
CountInputs ==
  { <<"2">>, <<"1", "0">>,
    <<"9","2","2","3","3","7","2","0","3","6","8","5","4","7","7","5","8","0","7">>,
    <<"9","2","2","3","3","7","2","0","3","6","8","5","4","7","7","5","8","0","8">> }

-----------------------------------------------------------------------------
(* Constants of the program *)

StateFileList == "StateFileList"
StateViewer == "StateViewer"
ViewModeJSON == "ViewModeJSON"
ViewModeMessage == "ViewModeMessage"

\* viewerHeight: rows taken by header, divider, footer and padding
ViewerChrome == 5
\* ensureCursorVisible: the height assumed when viewerHeight() <= 0
FallbackViewHeight == 10

\* the keys of the keybinding contract, and "x" for a key bound to nothing
DigitKeys == <<"0", "1", "2", "3", "4", "5", "6", "7", "8", "9">>
Keys == {"q", "ctrl+c", "j", "down", "k", "up", "enter", "g", "G", "tab",
         "esc", "ctrl+d", "ctrl+u", "/", "n", "N", "backspace", "x"}
          \cup {DigitKeys[i] : i \in 1..10}
\* len(msg.String()) == 1
SingleCharKeys == {"q", "j", "k", "g", "G", "/", "n", "N", "x"}
                   \cup {DigitKeys[i] : i \in 1..10}

-----------------------------------------------------------------------------
(* Go primitives *)

Min(a, b) == IF a < b THEN a ELSE b
Max(a, b) == IF a > b THEN a ELSE b

\* Go's integer division truncates toward zero
GoDiv(a, b) == IF a >= 0 THEN a \div b ELSE -((-a) \div b)
\* Go's remainder has the sign of the dividend
GoMod(a, b) == a - b * GoDiv(a, b)

UpperChars == <<"A","B","C","D","E","F","G","H","I","J","K","L","M",
                "N","O","P","Q","R","S","T","U","V","W","X","Y","Z">>
LowerChars == <<"a","b","c","d","e","f","g","h","i","j","k","l","m",
                "n","o","p","q","r","s","t","u","v","w","x","y","z">>

\* strings.ToLower
ToLowerCh(c) ==
  IF \E i \in 1..26 : UpperChars[i] = c
    THEN LowerChars[CHOOSE i \in 1..26 : UpperChars[i] = c]
    ELSE c

\* the bytes above 0x7F of the strings of the model: 0xC8 0xBA is U+023A, the
\* only letter above 0x7F the strings hold, and unicode.ToLower maps it to
\* U+2C65, 0xE2 0xB1 0xA5; a byte above 0x7F outside that pair is not UTF-8
\* and decodes to U+FFFD, 0xEF 0xBF 0xBD
NonASCII == {"C8", "BA"}

RECURSIVE ToLowerMap(_)
\* strings.Map(unicode.ToLower, s), the path of strings.ToLower for a string
\* with a byte above 0x7F
ToLowerMap(s) ==
  IF s = <<>> THEN <<>>
  ELSE IF Len(s) >= 2 /\ s[1] = "C8" /\ s[2] = "BA"
    THEN <<"E2", "B1", "A5">> \o ToLowerMap(Tail(Tail(s)))
  ELSE IF s[1] \in NonASCII
    THEN <<"EF", "BF", "BD">> \o ToLowerMap(Tail(s))
  ELSE <<ToLowerCh(s[1])>> \o ToLowerMap(Tail(s))

\* strings.ToLower: byte by byte for a string without a byte above 0x7F
ToLower(s) ==
  IF \A i \in 1..Len(s) : s[i] \notin NonASCII
    THEN [i \in 1..Len(s) |-> ToLowerCh(s[i])]
    ELSE ToLowerMap(s)

\* strings.Contains
Contains(s, sub) ==
  \E i \in 0..(Len(s) - Len(sub)) : SubSeq(s, i + 1, i + Len(sub)) = sub

\* key >= "0" && key <= "9" (string comparison): among the keys of the
\* contract exactly the ten digit keys lie in that range
IsDigitKey(key) == \E i \in 1..10 : DigitKeys[i] = key
DigitVal(key) == (CHOOSE i \in 1..10 : DigitKeys[i] = key) - 1

-----------------------------------------------------------------------------
(* Go's int.  cursorLine, messageIndex, the heights and the line counts are  *)
(* small; only a typed count can be near 2^63, and it is kept as its decimal *)
(* numeral.  A sum with such a count is far outside every line count, so it  *)
(* is represented by its sign times Saturated, which the clamps that follow  *)
(* every sum map to the same result as the exact 64-bit value.               *)

\* the decimal numeral of the largest int, 2^63 - 1
MaxIntDigits ==
  <<"9","2","2","3","3","7","2","0","3","6","8","5","4","7","7","5","8","0","7">>

Saturated == 10^9

RECURSIVE DecVal(_)
\* the value of a numeral of at most 9 digits
DecVal(s) ==
  IF s = <<>> THEN 0
  ELSE 10 * DecVal(SubSeq(s, 1, Len(s) - 1)) + DigitVal(s[Len(s)])

RECURSIVE DecOf(_)
\* the numeral of k > 0 (the empty numeral for 0)
DecOf(k) ==
  IF k = 0 THEN <<>> ELSE DecOf(k \div 10) \o <<DigitKeys[(k % 10) + 1]>>

RECURSIVE DecAdd(_, _)
\* the numeral of value(d) + k, for k >= 0
DecAdd(d, k) ==
  IF k = 0 THEN d
  ELSE IF d = <<>> THEN DecOf(k)
  ELSE LET t == DigitVal(d[Len(d)]) + (k % 10)
       IN  DecAdd(SubSeq(d, 1, Len(d) - 1), (k \div 10) + (t \div 10))
             \o <<DigitKeys[(t % 10) + 1]>>

\* value(a) <= value(b), for numerals without leading zeros
DecLE(a, b) ==
  \/ Len(a) < Len(b)
  \/ /\ Len(a) = Len(b)
     /\ \/ a = b
        \/ \E i \in 1..Len(a) :
             /\ \A j \in 1..(i - 1) : a[j] = b[j]
             /\ DigitVal(a[i]) < DigitVal(b[i])

\* an int that is small (v) or is the typed numeral d >= 10^9
SmallInt(v) == [small |-> TRUE, v |-> v, d |-> <<>>]
BigInt(d) == [small |-> FALSE, v |-> 0, d |-> d]

\* strconv.Atoi on a numeral without sign: a range error above 2^63 - 1
Atoi(s) ==
  IF Len(s) <= 9 THEN [err |-> FALSE, n |-> SmallInt(DecVal(s))]
  ELSE IF DecLE(s, MaxIntDigits) THEN [err |-> FALSE, n |-> BigInt(s)]
  ELSE [err |-> TRUE, n |-> BigInt(MaxIntDigits)]

\* n > 0
IntPositive(n) == IF n.small THEN n.v > 0 ELSE TRUE

\* x + count * direction in 64-bit two's complement, direction 1 or -1
AddCount(x, count, direction) ==
  IF count.small THEN x + count.v * direction
  ELSE IF direction > 0
    THEN IF x > 0 /\ ~DecLE(DecAdd(count.d, x), MaxIntDigits)
           THEN -Saturated     \* wraps past 2^63 - 1 to a negative int
           ELSE Saturated
    ELSE IF x < 0 /\ ~DecLE(DecAdd(count.d, (-x) - 1), MaxIntDigits)
           THEN Saturated      \* wraps past -2^63 to a positive int
           ELSE -Saturated

-----------------------------------------------------------------------------
(* The file system: what the two decoders return for each path *)

EmptyStr == <<>>

\* ParseJSONLFile(path) split at "\n": NumLines lines for a.jsonl, and the
\* single empty line of an empty transcript for b.jsonl
DecodedLines(path) ==
  IF path = "a.jsonl"
    THEN [i \in 1..NumLines |->
            CASE i % 3 = 1 -> <<"\"", "n", "\"">>
              [] i % 3 = 2 -> <<"q", "q">>
              [] OTHER     -> <<"N", "n">>]
    ELSE <<EmptyStr>>

\* ParseJSONLMessages(path): the kinds of the parsed messages
DecodedMessages(path) ==
  IF path = "a.jsonl"
    THEN [i \in 1..NumMessages |-> IF i % 2 = 1 THEN "user" ELSE "assistant"]
    ELSE <<>>

\* the file lists main() can pass to NewModel
FileLists == { <<>>, <<"a.jsonl", "b.jsonl">> }

\* the outcome of the two reads of an Open: both succeed, the first fails,
\* or the second fails
OpenOutcomes == {"ok", "failLines", "failMessages"}

-----------------------------------------------------------------------------
(* The Model value the handlers receive and return.  Update and the key     *)
(* handlers have value receivers: they work on a copy and return it with a   *)
(* command, "quit" for tea.Quit and "nil" for none.                          *)

Ret(m) == [m |-> m, cmd |-> "nil"]
Quit(m) == [m |-> m, cmd |-> "quit"]

\* NewModel
NewModel(fs) ==
  [state |-> StateFileList, files |-> fs, fileIndex |-> 0,
   rawLines |-> <<>>, messages |-> <<>>, messageIndex |-> 0,
   viewMode |-> ViewModeJSON, cursorLine |-> 0, scrollOffset |-> 0,
   messageScrollOffset |-> 0, searchQuery |-> EmptyStr,
   searchInput |-> EmptyStr, searchMode |-> FALSE, numBuffer |-> EmptyStr,
   lastKey |-> "", width |-> 0, height |-> 0, ready |-> FALSE, err |-> "nil"]

\* viewerHeight
viewerHeight(m) == m.height - ViewerChrome

\* ensureCursorVisible that only ever scrolls down
ensureCursorVisibleScrollsDown(m) ==
  LET vh0 == viewerHeight(m)
      viewHeight == IF vh0 <= 0 THEN FallbackViewHeight ELSE vh0
  IN  IF m.cursorLine >= m.scrollOffset + viewHeight
        THEN [m EXCEPT !.scrollOffset = m.cursorLine - viewHeight + 1]
        ELSE m

\* ensureCursorVisible
ensureCursorVisible(m) ==
  LET vh0 == viewerHeight(m)
      viewHeight == IF vh0 <= 0 THEN FallbackViewHeight ELSE vh0
      m1 == IF m.cursorLine < m.scrollOffset
              THEN [m EXCEPT !.scrollOffset = m.cursorLine] ELSE m
  IN  IF m1.cursorLine >= m1.scrollOffset + viewHeight
        THEN [m1 EXCEPT !.scrollOffset = m1.cursorLine - viewHeight + 1]
        ELSE m1

\* handleJSONNavigation with the upper clamp testing > instead of >=
handleJSONNavigationOffByOne(m, count, direction) ==
  LET totalLines == Len(m.rawLines)
      c0 == AddCount(m.cursorLine, count, direction)
      c1 == IF c0 > totalLines THEN totalLines - 1 ELSE c0
      c2 == IF c1 < 0 THEN 0 ELSE c1
  IN  ensureCursorVisible([m EXCEPT !.cursorLine = c2])

\* handleJSONNavigation
handleJSONNavigation(m, count, direction) ==
  LET totalLines == Len(m.rawLines)
      c0 == AddCount(m.cursorLine, count, direction)
      c1 == IF c0 >= totalLines THEN totalLines - 1 ELSE c0
      c2 == IF c1 < 0 THEN 0 ELSE c1
  IN  ensureCursorVisible([m EXCEPT !.cursorLine = c2])

\* handleMessageNavigation without the clamp at the first message
handleMessageNavigationNoFloor(m, count, direction) ==
  LET totalMessages == Len(m.messages)
      i0 == AddCount(m.messageIndex, count, direction)
      i1 == IF i0 >= totalMessages THEN totalMessages - 1 ELSE i0
  IN  IF totalMessages = 0 THEN m
      ELSE [m EXCEPT !.messageIndex = i1, !.messageScrollOffset = 0]

\* handleMessageNavigation
handleMessageNavigation(m, count, direction) ==
  LET totalMessages == Len(m.messages)
      i0 == AddCount(m.messageIndex, count, direction)
      i1 == IF i0 >= totalMessages THEN totalMessages - 1 ELSE i0
      i2 == IF i1 < 0 THEN 0 ELSE i1
  IN  IF totalMessages = 0 THEN m
      ELSE [m EXCEPT !.messageIndex = i2, !.messageScrollOffset = 0]

\* findNext with a loop that starts at the cursor line itself (i from 0)
findIndexFromCursor(m, direction, i) ==
  LET totalLines == Len(m.rawLines)
  IN  IF direction > 0
        THEN GoMod(m.cursorLine + (i - 1), totalLines)
        ELSE GoMod(m.cursorLine - (i - 1) + totalLines, totalLines)

\* findNext: the index the loop variable i gives for direction
findIndex(m, direction, i) ==
  LET totalLines == Len(m.rawLines)
  IN  IF direction > 0
        THEN GoMod(m.cursorLine + i, totalLines)
        ELSE GoMod(m.cursorLine - i + totalLines, totalLines)

\* findNext comparing the line and the query as they are, with no lower-casing
lineMatchesCaseSensitive(m, lineIdx) ==
  Contains(m.rawLines[lineIdx + 1], m.searchQuery)

\* findNext: rawLines[lineIdx] contains the query, case-insensitively
lineMatches(m, lineIdx) ==
  Contains(ToLower(m.rawLines[lineIdx + 1]), ToLower(m.searchQuery))

\* findNext that goes back to the first line when nothing matches
findNextNoMatchToTop(m, direction) ==
  LET totalLines == Len(m.rawLines)
      hits == {i \in 1..totalLines : lineMatches(m, findIndex(m, direction, i))}
  IN  IF m.searchQuery = EmptyStr THEN m
      ELSE IF hits = {} THEN [m EXCEPT !.cursorLine = 0, !.scrollOffset = 0]
      ELSE LET first == CHOOSE i \in hits : \A j \in hits : i <= j
           IN  ensureCursorVisible(
                 [m EXCEPT !.cursorLine = findIndex(m, direction, first)])

\* findNext
findNext(m, direction) ==
  LET totalLines == Len(m.rawLines)
      hits == {i \in 1..totalLines : lineMatches(m, findIndex(m, direction, i))}
  IN  IF m.searchQuery = EmptyStr \/ hits = {} THEN m
      ELSE LET first == CHOOSE i \in hits : \A j \in hits : i <= j
           IN  ensureCursorVisible(
                 [m EXCEPT !.cursorLine = findIndex(m, direction, first)])

\* handleSearchInput searching as the user types: a typed character also
\* commits the input and jumps to the next match
handleSearchInputIncremental(m, key) ==
  CASE key = "enter" ->
         LET m1 == [m EXCEPT !.searchQuery = m.searchInput,
                             !.searchMode = FALSE]
         IN  Ret(IF m1.searchQuery # EmptyStr THEN findNext(m1, 1) ELSE m1)
    [] key = "esc" ->
         Ret([m EXCEPT !.searchMode = FALSE, !.searchInput = EmptyStr])
    [] key = "backspace" ->
         Ret(IF Len(m.searchInput) > 0
               THEN [m EXCEPT !.searchInput =
                       SubSeq(m.searchInput, 1, Len(m.searchInput) - 1)]
               ELSE m)
    [] OTHER ->
         Ret(IF key \in SingleCharKeys
               THEN findNext([m EXCEPT !.searchInput = Append(m.searchInput, key),
                                       !.searchQuery = Append(m.searchInput, key)],
                             1)
               ELSE m)

\* handleSearchInput
handleSearchInput(m, key) ==
  CASE key = "enter" ->
         LET m1 == [m EXCEPT !.searchQuery = m.searchInput,
                             !.searchMode = FALSE]
         IN  Ret(IF m1.searchQuery # EmptyStr THEN findNext(m1, 1) ELSE m1)
    [] key = "esc" ->
         Ret([m EXCEPT !.searchMode = FALSE, !.searchInput = EmptyStr])
    [] key = "backspace" ->
         Ret(IF Len(m.searchInput) > 0
               THEN [m EXCEPT !.searchInput =
                       SubSeq(m.searchInput, 1, Len(m.searchInput) - 1)]
               ELSE m)
    [] OTHER ->
         Ret(IF key \in SingleCharKeys
               THEN [m EXCEPT !.searchInput = Append(m.searchInput, key)]
               ELSE m)

\* handleFileListKeys and handleViewerKeys: the lines after the switch
clearLastKey(m, key) == IF key # "g" THEN [m EXCEPT !.lastKey = ""] ELSE m

\* handleFileListKeys, case "enter", that comes back to the positions the
\* viewer was left at
openFileKeepsPositions(m, key, outcome) ==
  LET filePath == m.files[m.fileIndex + 1]
      m1 == [m EXCEPT !.rawLines = DecodedLines(filePath)]
  IN  IF Len(m.files) > 0
        THEN CASE outcome = "failLines" -> Ret([m EXCEPT !.err = "error"])
               [] outcome = "failMessages" -> Ret([m1 EXCEPT !.err = "error"])
               [] OTHER ->
                    Ret(clearLastKey(
                      [m1 EXCEPT !.messages = DecodedMessages(filePath),
                                 !.messageScrollOffset = 0,
                                 !.viewMode = ViewModeMessage,
                                 !.state = StateViewer,
                                 !.searchQuery = EmptyStr], key))
        ELSE Ret(clearLastKey(m, key))

\* handleFileListKeys, case "enter": outcome is what the two reads return
openFile(m, key, outcome) ==
  LET filePath == m.files[m.fileIndex + 1]
      m1 == [m EXCEPT !.rawLines = DecodedLines(filePath)]
  IN  IF Len(m.files) > 0
        THEN CASE outcome = "failLines" -> Ret([m EXCEPT !.err = "error"])
               [] outcome = "failMessages" -> Ret([m1 EXCEPT !.err = "error"])
               [] OTHER ->
                    Ret(clearLastKey(
                      [m1 EXCEPT !.messages = DecodedMessages(filePath),
                                 !.cursorLine = 0,
                                 !.scrollOffset = 0,
                                 !.messageIndex = 0,
                                 !.messageScrollOffset = 0,
                                 !.viewMode = ViewModeMessage,
                                 !.state = StateViewer,
                                 !.searchQuery = EmptyStr], key))
        ELSE Ret(clearLastKey(m, key))

\* handleFileListKeys
handleFileListKeys(m, key, outcome) ==
  CASE key \in {"q", "ctrl+c"} -> Quit(m)
    [] key \in {"j", "down"} ->
         Ret(clearLastKey(
           IF m.fileIndex < Len(m.files) - 1
             THEN [m EXCEPT !.fileIndex = m.fileIndex + 1] ELSE m, key))
    [] key \in {"k", "up"} ->
         Ret(clearLastKey(
           IF m.fileIndex > 0
             THEN [m EXCEPT !.fileIndex = m.fileIndex - 1] ELSE m, key))
    [] key = "enter" -> openFile(m, key, outcome)
    [] key = "g" ->
         Ret(IF m.lastKey = "g"
               THEN [m EXCEPT !.fileIndex = 0, !.lastKey = ""]
               ELSE [m EXCEPT !.lastKey = "g"])
    [] key = "G" ->
         Ret(clearLastKey([m EXCEPT !.fileIndex = Len(m.files) - 1], key))
    [] OTHER -> Ret(clearLastKey(m, key))

\* gotoTopByZero without the call of ensureCursorVisible
gotoTopByZeroKeepScroll(m) ==
  IF m.viewMode = ViewModeJSON
    THEN [m EXCEPT !.cursorLine = 0]
    ELSE [m EXCEPT !.messageIndex = 0, !.messageScrollOffset = 0]

\* handleViewerKeys: "0" pressed with an empty count buffer
gotoTopByZero(m) ==
  IF m.viewMode = ViewModeJSON
    THEN ensureCursorVisible([m EXCEPT !.cursorLine = 0])
    ELSE [m EXCEPT !.messageIndex = 0, !.messageScrollOffset = 0]

\* handleViewerKeys: the count a motion key repeats
consumeCount(m) ==
  LET r == Atoi(m.numBuffer)
  IN  IF m.numBuffer # EmptyStr /\ ~r.err /\ IntPositive(r.n)
        THEN r.n ELSE SmallInt(1)

\* handleViewerKeys: move by count in the active view
navigate(m, count, direction) ==
  IF m.viewMode = ViewModeJSON
    THEN handleJSONNavigation(m, count, direction)
    ELSE handleMessageNavigation(m, count, direction)

\* chordG firing without disarming the chord
chordGStaysArmed(m) ==
  IF m.lastKey = "g"
    THEN IF m.viewMode = ViewModeJSON
           THEN [m EXCEPT !.cursorLine = 0, !.scrollOffset = 0]
           ELSE [m EXCEPT !.messageIndex = 0, !.messageScrollOffset = 0]
    ELSE [m EXCEPT !.lastKey = "g"]

\* handleViewerKeys, case "g"
chordG(m) ==
  IF m.lastKey = "g"
    THEN IF m.viewMode = ViewModeJSON
           THEN [m EXCEPT !.cursorLine = 0, !.scrollOffset = 0, !.lastKey = ""]
           ELSE [m EXCEPT !.messageIndex = 0, !.messageScrollOffset = 0,
                          !.lastKey = ""]
    ELSE [m EXCEPT !.lastKey = "g"]

\* handleViewerKeys, case "G"
gotoBottom(m) ==
  IF m.viewMode = ViewModeJSON
    THEN ensureCursorVisible([m EXCEPT !.cursorLine = Len(m.rawLines) - 1])
    ELSE [m EXCEPT !.messageIndex = Len(m.messages) - 1,
                   !.messageScrollOffset = 0]

\* toggleView entering JSON view at the top of the file
toggleViewResetsJSON(m) ==
  IF m.viewMode = ViewModeJSON
    THEN [m EXCEPT !.viewMode = ViewModeMessage]
    ELSE [m EXCEPT !.viewMode = ViewModeJSON, !.cursorLine = 0,
                   !.scrollOffset = 0]

\* handleViewerKeys, case "tab"
toggleView(m) ==
  IF m.viewMode = ViewModeJSON
    THEN [m EXCEPT !.viewMode = ViewModeMessage]
    ELSE [m EXCEPT !.viewMode = ViewModeJSON]

\* handleViewerKeys: the switch on the key, after the count is consumed
viewerSwitch(m, key, count) ==
  LET halfPage == SmallInt(GoDiv(viewerHeight(m), 2))
  IN  CASE key = "q" ->
             Ret([m EXCEPT !.state = StateFileList,
                           !.searchQuery = EmptyStr,
                           !.searchInput = EmptyStr])
        [] key = "esc" ->
             Ret(IF m.searchQuery # EmptyStr
                   THEN [m EXCEPT !.searchQuery = EmptyStr,
                                  !.searchInput = EmptyStr]
                   ELSE [m EXCEPT !.state = StateFileList])
        [] key = "ctrl+c" -> Quit(m)
        [] key \in {"j", "down"} -> Ret(clearLastKey(navigate(m, count, 1), key))
        [] key \in {"k", "up"} -> Ret(clearLastKey(navigate(m, count, -1), key))
        [] key = "ctrl+d" -> Ret(clearLastKey(navigate(m, halfPage, 1), key))
        [] key = "ctrl+u" -> Ret(clearLastKey(navigate(m, halfPage, -1), key))
        [] key = "g" -> Ret(chordG(m))
        [] key = "G" -> Ret(clearLastKey(gotoBottom(m), key))
        [] key = "/" ->
             Ret([m EXCEPT !.searchMode = TRUE, !.searchInput = EmptyStr])
        [] key = "n" ->
             Ret(clearLastKey(
               IF m.searchQuery # EmptyStr THEN findNext(m, 1) ELSE m, key))
        [] key = "N" ->
             Ret(clearLastKey(
               IF m.searchQuery # EmptyStr THEN findNext(m, -1) ELSE m, key))
        [] OTHER -> Ret(clearLastKey(m, key))

\* handleViewerKeys whose Escape leaves the viewer even while a query is active
handleViewerKeysEscLeaves(m, key) ==
  IF key = "tab" THEN Ret(toggleView(m))
  ELSE IF IsDigitKey(key)
    THEN IF key = "0" /\ m.numBuffer = EmptyStr
           THEN Ret(gotoTopByZero(m))
           ELSE Ret([m EXCEPT !.numBuffer = Append(m.numBuffer, key)])
  ELSE IF key = "esc"
    THEN Ret([m EXCEPT !.numBuffer = EmptyStr, !.state = StateFileList])
  ELSE viewerSwitch([m EXCEPT !.numBuffer = EmptyStr], key, consumeCount(m))

\* handleViewerKeys
handleViewerKeys(m, key) ==
  IF key = "tab" THEN Ret(toggleView(m))
  ELSE IF IsDigitKey(key)
    THEN IF key = "0" /\ m.numBuffer = EmptyStr
           THEN Ret(gotoTopByZero(m))
           ELSE Ret([m EXCEPT !.numBuffer = Append(m.numBuffer, key)])
  ELSE viewerSwitch([m EXCEPT !.numBuffer = EmptyStr], key, consumeCount(m))

\* Update that lets q through to the screen's handler while the search
\* prompt is open
updateKeySearchYieldsToQ(m, key, outcome) ==
  IF m.searchMode /\ key # "q" THEN handleSearchInput(m, key)
  ELSE IF m.state = StateFileList THEN handleFileListKeys(m, key, outcome)
  ELSE handleViewerKeys(m, key)

\* Update, case tea.KeyMsg
updateKey(m, key, outcome) ==
  IF m.searchMode THEN handleSearchInput(m, key)
  ELSE IF m.state = StateFileList THEN handleFileListKeys(m, key, outcome)
  ELSE handleViewerKeys(m, key)

\* Update, case tea.WindowSizeMsg
updateSize(m, w, h) ==
  Ret([m EXCEPT !.width = w, !.height = h, !.ready = TRUE])

-----------------------------------------------------------------------------
(* Styled text: a Go string is a sequence of bytes; a byte is written as a
   one-character string, the escape byte 0x1b as ESC *)

ESC == "ESC"
LF == "\n"

\* the prefix of s after its first n bytes: s[n:]
Drop(s, n) == SubSeq(s, n + 1, Len(s))

\* (ch >= 'A' && ch <= 'Z') || (ch >= 'a' && ch <= 'z')
IsLetter(ch) == \E i \in 1..26 : UpperChars[i] = ch \/ LowerChars[i] = ch

\* strings.HasPrefix
HasPrefix(s, prefix) ==
  Len(prefix) <= Len(s) /\ SubSeq(s, 1, Len(prefix)) = prefix

\* strings.Index: the first index at which sub occurs in s, -1 if none
Index(s, sub) ==
  LET at == {i \in 0..(Len(s) - Len(sub)) : SubSeq(s, i + 1, i + Len(sub)) = sub}
  IN  IF at = {} THEN -1 ELSE CHOOSE i \in at : \A j \in at : i <= j

RECURSIVE Split(_)
\* strings.Split(content, "\n")
Split(content) ==
  LET idx == Index(content, <<LF>>)
  IN  IF idx = -1 THEN <<content>>
      ELSE <<SubSeq(content, 1, idx)>> \o Split(Drop(content, idx + 1))

RECURSIVE Join(_)
\* strings.Join(lines, "\n")
Join(lines) ==
  IF Len(lines) = 0 THEN <<>>
  ELSE IF Len(lines) = 1 THEN lines[1]
  ELSE lines[1] \o <<LF>> \o Join(Tail(lines))

IsSpace(ch) == ch \in {" ", "\t", LF}

RECURSIVE TrimLeft(_)
TrimLeft(s) ==
  IF s # <<>> /\ IsSpace(s[1]) THEN TrimLeft(Tail(s)) ELSE s

RECURSIVE TrimRight(_)
TrimRight(s) ==
  IF s # <<>> /\ IsSpace(s[Len(s)])
    THEN TrimRight(SubSeq(s, 1, Len(s) - 1)) ELSE s

\* strings.TrimSpace
TrimSpace(s) == TrimRight(TrimLeft(s))

\* the sequences written around a match, and after a truncation
HighlightStart ==
  <<ESC, "[", "1", ";", "3", "0", ";", "4", "8", ";", "5", ";", "2", "2", "6", "m">>
AnsiReset == <<ESC, "[", "0", "m">>

RECURSIVE ansiSequenceEnd(_, _)
\* getAnsiSequence: the loop from byte i (0-based); the length of the
\* sequence, 0 when the bytes are no sequence
ansiSequenceEnd(s, i) ==
  IF i >= Len(s) THEN 0
  ELSE IF IsLetter(s[i + 1]) THEN i + 1
  ELSE IF ~(IsDigitKey(s[i + 1]) \/ s[i + 1] = ";" \/ s[i + 1] = "?") THEN 0
  ELSE ansiSequenceEnd(s, i + 1)

\* getAnsiSequence
getAnsiSequence(s) ==
  IF Len(s) < 2 \/ s[1] # ESC \/ s[2] # "[" THEN <<>>
  ELSE SubSeq(s, 1, ansiSequenceEnd(s, 2))

RECURSIVE extractVisibleText(_)
\* extractVisibleText
extractVisibleText(line) ==
  IF line = <<>> THEN <<>>
  ELSE LET ansiSeq == getAnsiSequence(line)
       IN  IF ansiSeq # <<>>
             THEN extractVisibleText(Drop(line, Len(ansiSeq)))
             ELSE <<line[1]>> \o extractVisibleText(Tail(line))

RECURSIVE ansiRegexEnd(_, _)
\* the regular expression of StripAnsi, \x1b\[[0-9;]*[a-zA-Z], after "\x1b[":
\* the length of the match, 0 when there is none
ansiRegexEnd(s, i) ==
  IF i >= Len(s) THEN 0
  ELSE IF IsLetter(s[i + 1]) THEN i + 1
  ELSE IF ~(IsDigitKey(s[i + 1]) \/ s[i + 1] = ";") THEN 0
  ELSE ansiRegexEnd(s, i + 1)

RECURSIVE StripAnsi(_)
\* StripAnsi: every leftmost match of the regular expression removed
StripAnsi(s) ==
  IF s = <<>> THEN <<>>
  ELSE LET n == IF Len(s) < 2 \/ s[1] # ESC \/ s[2] # "[" THEN 0
                ELSE ansiRegexEnd(s, 2)
       IN  IF n > 0 THEN StripAnsi(Drop(s, n))
           ELSE <<s[1]>> \o StripAnsi(Tail(s))

RECURSIVE findMatches(_, _, _)
\* highlightSearchInLine: the loop that collects the match positions
findMatches(visibleLower, queryLower, pos) ==
  LET idx == Index(Drop(visibleLower, pos), queryLower)
  IN  IF idx = -1 THEN <<>>
      ELSE <<pos + idx>> \o findMatches(visibleLower, queryLower, pos + idx + 1)

RECURSIVE rebuildLine(_, _, _, _)
\* highlightSearchInLine: the loop that rebuilds the line; l holds the loop's
\* variables lineIdx, visibleIdx, matchIdx, inMatch and matchEnd
rebuildLine(line, matches, queryLen, l) ==
  IF l.lineIdx >= Len(line) THEN <<>>
  ELSE
    LET ansiSeq == getAnsiSequence(Drop(line, l.lineIdx))
        starts == l.matchIdx < Len(matches)
                    /\ l.visibleIdx = matches[l.matchIdx + 1]
        inMatch == l.inMatch \/ starts
        matchEnd == IF starts THEN l.visibleIdx + queryLen ELSE l.matchEnd
        ends == inMatch /\ l.visibleIdx + 1 = matchEnd
    IN  IF ansiSeq # <<>>
          THEN ansiSeq \o rebuildLine(line, matches, queryLen,
                            [l EXCEPT !.lineIdx = l.lineIdx + Len(ansiSeq)])
          ELSE (IF starts THEN HighlightStart ELSE <<>>)
                 \o <<line[l.lineIdx + 1]>>
                 \o (IF ends THEN AnsiReset ELSE <<>>)
                 \o rebuildLine(line, matches, queryLen,
                      [lineIdx |-> l.lineIdx + 1,
                       visibleIdx |-> l.visibleIdx + 1,
                       matchIdx |-> IF ends THEN l.matchIdx + 1 ELSE l.matchIdx,
                       inMatch |-> inMatch /\ ~ends,
                       matchEnd |-> matchEnd])

\* highlightSearchInLine that writes the lower-cased bytes it searched in
highlightSearchInLineLowered(line, queryLower) ==
  LET matches == findMatches(ToLower(extractVisibleText(line)), queryLower, 0)
  IN  IF queryLower = <<>> \/ matches = <<>> THEN line
      ELSE rebuildLine(ToLower(line), matches, Len(queryLower),
             [lineIdx |-> 0, visibleIdx |-> 0, matchIdx |-> 0,
              inMatch |-> FALSE, matchEnd |-> 0])

\* highlightSearchInLine
highlightSearchInLine(line, queryLower) ==
  LET matches == findMatches(ToLower(extractVisibleText(line)), queryLower, 0)
  IN  IF queryLower = <<>> \/ matches = <<>> THEN line
      ELSE rebuildLine(line, matches, Len(queryLower),
             [lineIdx |-> 0, visibleIdx |-> 0, matchIdx |-> 0,
              inMatch |-> FALSE, matchEnd |-> 0])

\* HighlightSearch that closes every line with a reset
HighlightSearchTrailingReset(content, query) ==
  IF query = <<>> THEN content
  ELSE LET lines == Split(content)
       IN  Join([i \in 1..Len(lines) |->
                  highlightSearchInLine(lines[i], ToLower(query)) \o AnsiReset])

\* HighlightSearch
HighlightSearch(content, query) ==
  IF query = <<>> THEN content
  ELSE LET lines == Split(content)
       IN  Join([i \in 1..Len(lines) |->
                  highlightSearchInLine(lines[i], ToLower(query))])

\* the 256-colour numbers of keyStyle, strStyle, numStyle, boolStyle and
\* braceStyle
keyStyle == <<"8", "1">>
strStyle == <<"1", "1", "4">>
numStyle == <<"1", "4", "1">>
boolStyle == <<"2", "0", "8">>
braceStyle == <<"2", "4", "5">>

\* Style.Render of a foreground-coloured style that loses the last byte
RenderClipped(style, str, colour) ==
  IF colour
    THEN <<ESC, "[", "3", "8", ";", "5", ";">> \o style \o <<"m">>
           \o SubSeq(str, 1, Len(str) - 1) \o AnsiReset
    ELSE SubSeq(str, 1, Len(str) - 1)

\* Style.Render of a foreground-coloured style: the text between the colour
\* sequence and a reset when the terminal has colours, the text alone when
\* it has none
Render(style, str, colour) ==
  IF colour
    THEN <<ESC, "[", "3", "8", ";", "5", ";">> \o style \o <<"m">>
           \o str \o AnsiReset
    ELSE str

RECURSIVE stringEndNoEscape(_, _)
\* the loop that looks for the closing quote and gives a backslash no meaning
stringEndNoEscape(line, j) ==
  IF j < Len(line) /\ line[j + 1] # "\""
    THEN stringEndNoEscape(line, j + 1)
    ELSE j

RECURSIVE stringEnd(_, _)
\* highlightJSONLine, case '"': the loop that looks for the closing quote,
\* from byte j (0-based)
stringEnd(line, j) ==
  IF j < Len(line) /\ line[j + 1] # "\""
    THEN IF line[j + 1] = "\\" /\ j + 1 < Len(line)
           THEN stringEnd(line, j + 2)
           ELSE stringEnd(line, j + 1)
    ELSE j

RECURSIVE numberEnd(_, _)
\* highlightJSONLine, numbers: the loop over the bytes of a numeric literal
numberEnd(line, j) ==
  IF j < Len(line)
       /\ (line[j + 1] \in {"-", "+", ".", "e", "E"} \/ IsDigitKey(line[j + 1]))
    THEN numberEnd(line, j + 1)
    ELSE j

RECURSIVE scanJSONLine(_, _, _)
\* highlightJSONLine: the scan from byte i (0-based)
scanJSONLine(line, i, colour) ==
  IF i >= Len(line) THEN <<>>
  ELSE
    LET ch == line[i + 1]
        remaining == Drop(line, i)
    IN  CASE ch \in {" ", "\t"} -> <<ch>> \o scanJSONLine(line, i + 1, colour)
          [] ch \in {"{", "}", "[", "]"} ->
               Render(braceStyle, <<ch>>, colour)
                 \o scanJSONLine(line, i + 1, colour)
          [] ch \in {":", ","} -> <<ch>> \o scanJSONLine(line, i + 1, colour)
          [] ch = "\"" ->
               LET j0 == stringEnd(line, i + 1)
                   j == IF j0 < Len(line) THEN j0 + 1 ELSE j0
                   str == SubSeq(line, i + 1, j)
                   restTrimmed == TrimSpace(Drop(line, j))
               IN  (IF Len(restTrimmed) > 0 /\ restTrimmed[1] = ":"
                      THEN Render(keyStyle, str, colour)
                      ELSE Render(strStyle, str, colour))
                     \o scanJSONLine(line, j, colour)
          [] ch = "-" \/ IsDigitKey(ch) ->
               LET j == numberEnd(line, i)
               IN  Render(numStyle, SubSeq(line, i + 1, j), colour)
                     \o scanJSONLine(line, j, colour)
          [] ch \in {"t", "f", "n"} ->
               IF HasPrefix(remaining, <<"t", "r", "u", "e">>)
                 THEN Render(boolStyle, <<"t", "r", "u", "e">>, colour)
                        \o scanJSONLine(line, i + 4, colour)
               ELSE IF HasPrefix(remaining, <<"f", "a", "l", "s", "e">>)
                 THEN Render(boolStyle, <<"f", "a", "l", "s", "e">>, colour)
                        \o scanJSONLine(line, i + 5, colour)
               ELSE IF HasPrefix(remaining, <<"n", "u", "l", "l">>)
                 THEN Render(boolStyle, <<"n", "u", "l", "l">>, colour)
                        \o scanJSONLine(line, i + 4, colour)
               ELSE <<ch>> \o scanJSONLine(line, i + 1, colour)
          [] OTHER -> <<ch>> \o scanJSONLine(line, i + 1, colour)

\* highlightJSONLine
highlightJSONLine(line, colour) ==
  IF TrimSpace(line) = <<>> THEN line ELSE scanJSONLine(line, 0, colour)

\* HighlightJSON
HighlightJSON(content, colour) ==
  LET lines == Split(content)
  IN  Join([i \in 1..Len(lines) |-> highlightJSONLine(lines[i], colour)])

\* lipgloss.Width: the number of bytes outside escape sequences
Width(s) == Len(extractVisibleText(s))

\* strings.Repeat(" ", count)
Spaces(count) == [i \in 1..count |-> " "]

RECURSIVE truncateSequenceEnd(_, _)
\* truncateWithAnsi: the loop that looks for the letter ending a sequence
truncateSequenceEnd(s, j) ==
  IF j < Len(s) /\ ~IsLetter(s[j + 1]) THEN truncateSequenceEnd(s, j + 1) ELSE j

RECURSIVE truncateLoop(_, _, _, _)
\* truncateWithAnsi: the loop over the bytes of s, from byte i (0-based)
truncateLoop(s, maxWidth, i, visibleWidth) ==
  IF ~(i < Len(s) /\ visibleWidth < maxWidth) THEN <<>>
  ELSE IF s[i + 1] = ESC /\ i + 1 < Len(s) /\ s[i + 2] = "["
    THEN LET j0 == truncateSequenceEnd(s, i + 2)
             j == IF j0 < Len(s) THEN j0 + 1 ELSE j0
         IN  SubSeq(s, i + 1, j) \o truncateLoop(s, maxWidth, j, visibleWidth)
    ELSE <<s[i + 1]>> \o truncateLoop(s, maxWidth, i + 1, visibleWidth + 1)

\* truncateWithAnsi
truncateWithAnsi(s, maxWidth) ==
  IF maxWidth <= 0 THEN <<>>
  ELSE truncateLoop(s, maxWidth, 0, 0) \o AnsiReset

\* padOrTruncate
padOrTruncate(s, w) ==
  LET visible == Width(s)
  IN  IF visible > w THEN truncateWithAnsi(s, w)
      ELSE IF visible < w THEN s \o Spaces(w - visible)
      ELSE s

-----------------------------------------------------------------------------
(* Messages: a rendered message is a sequence of pieces, each the text one
   library call (a lipgloss style, the word wrapper, the markdown renderer)
   was given, with the width it was given where it takes one *)

\* implementedTypes
implementedTypes == {"user", "assistant", "system", "summary"}

\* style.Render(text...) of a lipgloss style
Styled(style, text) == [via |-> style, text |-> text, width |-> 0]
\* text written as it is
Written(text) == [via |-> "", text |-> text, width |-> 0]

\* the byte 0x60 of a Go string
Backquote == "BQ"

\* looksLikeMarkdown: markdownPatterns
markdownPatterns ==
  {<<Backquote, Backquote, Backquote>>, <<"*", "*">>, <<"_", "_">>, <<"*">>, <<"_">>,
   <<"#", " ">>, <<"#", "#", " ">>, <<"#", "#", "#", " ">>, <<"-", " ">>,
   <<"*", " ">>, <<"1", ".", " ">>, <<"[">>, <<Backquote>>, <<">", " ">>,
   <<"-", "-", "-">>, <<"*", "*", "*">>}

\* looksLikeMarkdown
looksLikeMarkdown(content) ==
  \E pattern \in markdownPatterns : Contains(content, pattern)

\* wordwrap.String(content, width): empty for empty content
wordwrapString(content, w) ==
  IF content = <<>> THEN <<>>
  ELSE <<[via |-> "wordwrap", text |-> content, width |-> w]>>

\* renderMarkdown; renders says whether glamour builds its renderer and
\* renders without an error
renderMarkdown(content, w, renders) ==
  LET w1 == IF w < 20 THEN 20 ELSE w
  IN  IF ~looksLikeMarkdown(content) THEN wordwrapString(content, w1)
      ELSE IF ~renders THEN wordwrapString(content, w1)
      ELSE <<[via |-> "glamour", text |-> content, width |-> w1]>>

\* renderBlock that gives every body to renderMarkdown
renderBlockAllMarkdown(block, w, renders) ==
  CASE block.Type = "thinking" ->
         <<Styled("thinkingStyle", <<"Thinking:", LF>>)>>
           \o renderMarkdown(block.Content, w, renders)
    [] block.Type = "tool_use" ->
         <<Styled("toolUseHeaderStyle", <<block.Name>>), Written(<<LF>>),
           Written(block.Content)>>
    [] block.Type = "tool_result" ->
         <<Styled("toolResultHeaderStyle", <<"Result">>), Written(<<LF>>),
           Written(block.Content)>>
    [] OTHER -> renderMarkdown(block.Content, w, renders)

\* renderBlock
renderBlock(block, w, renders) ==
  CASE block.Type = "text" -> renderMarkdown(block.Content, w, renders)
    [] block.Type = "thinking" ->
         <<Styled("thinkingStyle", <<"Thinking:", LF>>)>>
           \o renderMarkdown(block.Content, w, renders)
    [] block.Type = "tool_use" ->
         <<Styled("toolUseHeaderStyle", <<block.Name>>), Written(<<LF>>),
           Written(block.Content)>>
    [] block.Type = "tool_result" ->
         <<Styled("toolResultHeaderStyle", <<"Result">>), Written(<<LF>>),
           Written(block.Content)>>
    [] block.Type = "plain" -> wordwrapString(block.Content, w)
    [] OTHER -> wordwrapString(block.Content, w)

RECURSIVE renderContentFrom(_, _, _, _, _)
\* renderContent: the loop over the blocks from block i, and the join with
\* "\n\n"; first says that no part has been written yet
renderContentFrom(m, w, renders, i, first) ==
  IF i > Len(m.Content) THEN <<>>
  ELSE LET rendered == renderBlock(m.Content[i], w, renders)
       IN  IF rendered = <<>>
             THEN renderContentFrom(m, w, renders, i + 1, first)
             ELSE (IF first THEN <<>> ELSE <<Written(<<LF, LF>>)>>)
                    \o rendered
                    \o renderContentFrom(m, w, renders, i + 1, FALSE)

\* renderContent
renderContent(m, w, renders) == renderContentFrom(m, w, renders, 1, TRUE)

\* the label of renderBadge: the type, with the subtype where there is one
badgeLabel(m) ==
  IF m.Subtype # "" THEN <<m.Type, " (", m.Subtype, ")">> ELSE <<m.Type>>

\* renderBadge that looks for a tool_result in the first block only
renderBadgeFirstBlock(m) ==
  CASE m.Type = "user" ->
         IF Len(m.Content) > 0 /\ m.Content[1].Type = "tool_result"
           THEN <<Styled("userBadgeStyle", <<"user">>), Written(<<" ">>),
                  Styled("toolResultHeaderStyle", <<"tool_result">>)>>
           ELSE <<Styled("userBadgeStyle", badgeLabel(m))>>
    [] m.Type = "assistant" -> <<Styled("assistantBadgeStyle", badgeLabel(m))>>
    [] m.Type = "system" -> <<Styled("systemBadgeStyle", badgeLabel(m))>>
    [] m.Type = "summary" -> <<Styled("summaryBadgeStyle", badgeLabel(m))>>
    [] OTHER -> <<Styled("unknownBadgeStyle", badgeLabel(m))>>

\* renderBadge
renderBadge(m) ==
  CASE m.Type = "user" ->
         IF \E i \in 1..Len(m.Content) : m.Content[i].Type = "tool_result"
           THEN <<Styled("userBadgeStyle", <<"user">>), Written(<<" ">>),
                  Styled("toolResultHeaderStyle", <<"tool_result">>)>>
           ELSE <<Styled("userBadgeStyle", badgeLabel(m))>>
    [] m.Type = "assistant" -> <<Styled("assistantBadgeStyle", badgeLabel(m))>>
    [] m.Type = "system" -> <<Styled("systemBadgeStyle", badgeLabel(m))>>
    [] m.Type = "summary" -> <<Styled("summaryBadgeStyle", badgeLabel(m))>>
    [] OTHER -> <<Styled("unknownBadgeStyle", badgeLabel(m))>>

\* Message.Render that warns about every type but user and assistant
MessageRenderWarnsMore(m, w, renders) ==
  LET contentWidth == IF w - 4 < 20 THEN 20 ELSE w - 4
      content == renderContent(m, contentWidth, renders)
  IN  renderBadge(m)
        \o (IF m.Type \notin {"user", "assistant"}
              THEN <<Written(<<" ">>), Styled("warningStyle", <<"!">>)>>
              ELSE <<>>)
        \o <<Written(<<LF>>)>>
        \o (IF m.IsMeta
              THEN <<Styled("metaMessageStyle", <<>>)>> \o content
              ELSE content)

\* Message.Render
MessageRender(m, w, renders) ==
  LET contentWidth == IF w - 4 < 20 THEN 20 ELSE w - 4
      content == renderContent(m, contentWidth, renders)
  IN  renderBadge(m)
        \o (IF m.Type \notin implementedTypes
              THEN <<Written(<<" ">>), Styled("warningStyle", <<"!">>)>>
              ELSE <<>>)
        \o <<Written(<<LF>>)>>
        \o (IF m.IsMeta
              THEN <<Styled("metaMessageStyle", <<>>)>> \o content
              ELSE content)

-----------------------------------------------------------------------------
(* JSON texts: encoding/json as far as the texts of the model go. They hold
   objects, arrays, strings without escapes and numbers written in digits,
   which json.Unmarshal decodes and json.MarshalIndent writes back as they
   stand; an object holds one key *)

\* a decoded value: interface{} holding a float64, a string, a []interface{}
\* or a map[string]interface{}
Value(kind, text, keys, items) ==
  [kind |-> kind, text |-> text, keys |-> keys, items |-> items]

\* the outcome of decoding up to byte i (0-based): an error, or a value
DecodeError == [ok |-> FALSE, v |-> Value("", <<>>, <<>>, <<>>), i |-> 0]
Decoded(v, i) == [ok |-> TRUE, v |-> v, i |-> i]

RECURSIVE skipSpace(_, _)
\* json.Unmarshal: white space between the tokens
skipSpace(s, i) ==
  IF i < Len(s) /\ IsSpace(s[i + 1]) THEN skipSpace(s, i + 1) ELSE i

RECURSIVE decodeDigits(_, _)
\* json.Unmarshal: the digits of a number
decodeDigits(s, i) ==
  IF i < Len(s) /\ IsDigitKey(s[i + 1]) THEN decodeDigits(s, i + 1) ELSE i

RECURSIVE decodeValue(_, _)
RECURSIVE decodeItems(_, _, _)
\* json.Unmarshal: the elements of an array or the members of an object v,
\* from byte i
decodeItems(s, i, v) ==
  LET j == skipSpace(s, i)
      closing == IF v.kind = "array" THEN "]" ELSE "}"
      close == IF j < Len(s)
                 THEN Index(SubSeq(s, j + 2, Len(s)), <<"\"">>)
                 ELSE -1
      key == IF v.kind = "object" /\ j < Len(s) /\ s[j + 1] = "\""
                  /\ close # -1
               THEN SubSeq(s, j + 2, j + 1 + close)
               ELSE <<>>
      colon == skipSpace(s, j + 2 + close)
      keyed == /\ v.kind = "object" /\ j < Len(s) /\ s[j + 1] = "\""
               /\ close # -1
               /\ \A n \in 1..Len(key) : key[n] \notin {LF, "\t", "\\"}
               /\ colon < Len(s) /\ s[colon + 1] = ":"
      r == IF v.kind = "array" THEN decodeValue(s, j)
           ELSE IF keyed THEN decodeValue(s, colon + 1)
           ELSE DecodeError
      k == skipSpace(s, r.i)
      at == IF \E n \in 1..Len(v.keys) : v.keys[n] = key
              THEN CHOOSE n \in 1..Len(v.keys) : v.keys[n] = key
              ELSE 0
      added == IF v.kind = "array"
                 THEN [v EXCEPT !.items = Append(v.items, r.v)]
               ELSE IF at # 0 THEN [v EXCEPT !.items[at] = r.v]
               ELSE [v EXCEPT !.keys = Append(v.keys, key),
                              !.items = Append(v.items, r.v)]
  IN  IF ~r.ok \/ k >= Len(s) THEN DecodeError
      ELSE IF s[k + 1] = "," THEN decodeItems(s, k + 1, added)
      ELSE IF s[k + 1] = closing THEN Decoded(added, k + 1)
      ELSE DecodeError

\* json.Unmarshal: the value that begins at byte i, after white space
decodeValue(s, i) ==
  LET j == skipSpace(s, i)
      empty == skipSpace(s, j + 1)
      close == Index(SubSeq(s, j + 2, Len(s)), <<"\"">>)
      str == SubSeq(s, j + 2, j + 1 + close)
      digits == decodeDigits(s, j)
  IN  IF j >= Len(s) THEN DecodeError
      ELSE IF s[j + 1] = "["
        THEN IF empty < Len(s) /\ s[empty + 1] = "]"
               THEN Decoded(Value("array", <<>>, <<>>, <<>>), empty + 1)
               ELSE decodeItems(s, j + 1, Value("array", <<>>, <<>>, <<>>))
      ELSE IF s[j + 1] = "{"
        THEN IF empty < Len(s) /\ s[empty + 1] = "}"
               THEN Decoded(Value("object", <<>>, <<>>, <<>>), empty + 1)
               ELSE decodeItems(s, j + 1, Value("object", <<>>, <<>>, <<>>))
      ELSE IF s[j + 1] = "\""
        THEN IF close = -1
                  \/ \E n \in 1..Len(str) : str[n] \in {LF, "\t", "\\"}
               THEN DecodeError
               ELSE Decoded(Value("string", str, <<>>, <<>>), j + 2 + close)
      ELSE IF IsDigitKey(s[j + 1])
        THEN IF s[j + 1] = "0" /\ digits > j + 1 THEN DecodeError
             ELSE Decoded(Value("number", SubSeq(s, j + 1, digits), <<>>, <<>>),
                          digits)
      ELSE DecodeError

\* json.Unmarshal([]byte(s), &data): one value and white space, no more
Unmarshal(s) ==
  LET r == decodeValue(s, 0)
  IN  IF r.ok /\ skipSpace(s, r.i) >= Len(s) THEN r ELSE DecodeError

\* the indent of a line depth levels deep, for the indent of width spaces
Indent(depth, spaces) == [i \in 1..(depth * spaces) |-> " "]

RECURSIVE marshalValue(_, _, _)
RECURSIVE marshalItems(_, _, _, _)
\* json.MarshalIndent: the elements or members of v from the i-th on, one to
\* a line
marshalItems(v, depth, spaces, i) ==
  IF i > Len(v.items) THEN <<>>
  ELSE <<LF>> \o Indent(depth + 1, spaces)
         \o (IF v.kind = "object"
               THEN <<"\"">> \o v.keys[i] \o <<"\"", ":", " ">> ELSE <<>>)
         \o marshalValue(v.items[i], depth + 1, spaces)
         \o (IF i < Len(v.items) THEN <<",">> ELSE <<>>)
         \o marshalItems(v, depth, spaces, i + 1)

\* json.MarshalIndent(v, "", indent) for a value depth levels deep
marshalValue(v, depth, spaces) ==
  IF v.kind = "number" THEN v.text
  ELSE IF v.kind = "string" THEN <<"\"">> \o v.text \o <<"\"">>
  ELSE LET open == IF v.kind = "array" THEN "[" ELSE "{"
           close == IF v.kind = "array" THEN "]" ELSE "}"
       IN  IF v.items = <<>> THEN <<open, close>>
           ELSE <<open>> \o marshalItems(v, depth, spaces, 1)
                  \o <<LF>> \o Indent(depth, spaces) \o <<close>>

\* json.MarshalIndent(v, "", "  ")
MarshalIndentTwo(v) == marshalValue(v, 0, 2)

\* json.MarshalIndent(v, "", "    ")
MarshalIndent(v) == marshalValue(v, 0, 4)

RECURSIVE processValue(_)
\* processValue
processValue(v) ==
  IF v.kind = "string"
    THEN LET trimmed == TrimSpace(v.text)
         IN  IF Len(trimmed) = 0 THEN v
             ELSE IF trimmed[1] \in {"{", "["} /\ Unmarshal(v.text).ok
               THEN processValue(Unmarshal(v.text).v)
             ELSE v
  ELSE IF v.kind \in {"array", "object"}
    THEN [v EXCEPT !.items = [i \in 1..Len(v.items) |-> processValue(v.items[i])]]
  ELSE v

RECURSIVE scanLines(_, _, _)
\* ParseJSONLFile: the loop over the lines of the file, from the i-th on
scanLines(lines, i, first) ==
  IF i > Len(lines) THEN <<>>
  ELSE IF TrimSpace(lines[i]) = <<>> THEN scanLines(lines, i + 1, first)
  ELSE (IF first THEN <<>> ELSE <<LF, LF>>)
         \o (IF Unmarshal(lines[i]).ok
               THEN MarshalIndent(processValue(Unmarshal(lines[i]).v))
               ELSE lines[i])
         \o scanLines(lines, i + 1, FALSE)

\* ParseJSONLFile that drops the lines it cannot decode
ParseJSONLFileDropsRaw(content) ==
  LET lines == Split(content)
  IN  scanLines([i \in 1..Len(lines) |->
                  IF Unmarshal(lines[i]).ok THEN lines[i] ELSE <<>>], 1, TRUE)

\* ParseJSONLFile of a file with the given content
ParseJSONLFile(content) == scanLines(Split(content), 1, TRUE)

\* parseMessageContent, case "tool_result": the block of an item whose
\* content is the string resultContent
toolResultBlock(resultContent) ==
  [Type |-> "tool_result", Name |-> "",
   Content |-> IF Unmarshal(resultContent).ok
                 THEN MarshalIndent(Unmarshal(resultContent).v)
                 ELSE resultContent]

-----------------------------------------------------------------------------
(* The frame: View composes it from parts; a frame is aborted when composing
   it runs into a runtime failure (a repeat with a negative count, an index or
   a slice bound out of range) *)

\* a frame of the given parts, composed without a failure
Frame(parts) == [aborted |-> FALSE, parts |-> parts]
\* the frame whose composition fails
Aborted == [aborted |-> TRUE, parts |-> <<>>]

RECURSIVE quotedBodyEnd(_, _)
\* the regular expressions of ExtractStringFromLine: the index (0-based) of the
\* quote that closes the body ((?:[^"\\]|\\.)*) starting at byte i, -1 if none
quotedBodyEnd(s, i) ==
  IF i >= Len(s) THEN -1
  ELSE IF s[i + 1] = "\"" THEN i
  ELSE IF s[i + 1] = "\\"
    THEN IF i + 1 < Len(s) THEN quotedBodyEnd(s, i + 2) ELSE -1
  ELSE quotedBodyEnd(s, i + 1)

\* the regular expressions of ExtractStringFromLine: "body" \s*,?\s*$ from
\* the opening quote at byte i
quotedValueToEnd(s, i) ==
  /\ i < Len(s)
  /\ s[i + 1] = "\""
  /\ LET close == quotedBodyEnd(s, i + 1)
         rest == TrimSpace(Drop(s, close + 1))
     IN  /\ close # -1
         /\ \/ rest = <<>>
            \/ rest[1] = "," /\ TrimSpace(Tail(rest)) = <<>>

\* ExtractStringFromLine: found
ExtractStringFound(line) ==
  LET trimmed == TrimSpace(line)
      keyEnd == Index(Drop(trimmed, 1), <<"\"">>) + 1
  IN  \/ /\ Len(trimmed) > 0
         /\ trimmed[1] = "\""
         /\ keyEnd > 1
         /\ keyEnd + 1 < Len(trimmed)
         /\ trimmed[keyEnd + 2] = ":"
         /\ LET value == TrimLeft(Drop(trimmed, keyEnd + 2))
            IN  quotedValueToEnd(value, 0)
      \/ quotedValueToEnd(trimmed, 0)

\* leftPaneWidth
leftPaneWidth(m) == GoDiv(m.width * 55, 100)

\* rightPaneWidth
rightPaneWidth(m) == m.width - leftPaneWidth(m) - 3

\* centerLines: the number of lines returned for n lines, -1 when the slice
\* lines[:height] fails
centerLines(n, h) ==
  IF n >= h THEN (IF h < 0 THEN -1 ELSE h) ELSE h

\* buildRightPane: the number of lines of the preview pane, -1 when the
\* composition fails
buildRightPane(m, w, h) ==
  IF m.cursorLine >= Len(m.rawLines) THEN 1
  ELSE IF ~ExtractStringFound(m.rawLines[m.cursorLine + 1])
    THEN centerLines(1, h)
  ELSE IF w - 2 < 0 THEN -1
  ELSE 3

\* buildLeftPane: the number of lines of the JSON pane, -1 when an index into
\* highlightedLines is negative
buildLeftPane(m, w, h) ==
  IF \E i \in 0..(h - 1) : m.scrollOffset + i < 0 THEN -1
  ELSE Max(h, 0)

\* viewFileList
viewFileList(m) ==
  Frame(<<"Claude JSONL Viewer">>
          \o (IF Len(m.files) = 0
                THEN <<"No .jsonl files found in current directory.">>
                ELSE [i \in 1..Len(m.files) |->
                       IF i - 1 = m.fileIndex THEN "> file" ELSE "  file"])
          \o <<"j/k: navigate, enter: open, q: quit">>)

\* viewJSONMode
viewJSONMode(m) ==
  LET viewHeight == viewerHeight(m)
      leftLines == buildLeftPane(m, leftPaneWidth(m), viewHeight)
      rightLines == buildRightPane(m, rightPaneWidth(m), viewHeight)
  IN  IF m.width < 0 \/ leftLines = -1 \/ rightLines = -1 THEN Aborted
      ELSE Frame(<<"header", "divider">>
                   \o [i \in 1..Max(viewHeight, 0) |-> "left | right"]
                   \o <<IF m.searchMode THEN "/input" ELSE "progress  help">>)

\* viewMessageMode
viewMessageMode(m) ==
  IF m.width < 0 THEN Aborted
  ELSE IF Len(m.messages) = 0
    THEN Frame(<<"header", "divider", "No messages to display",
                 IF m.searchMode THEN "/input" ELSE "help">>)
  ELSE IF m.messageIndex < 0 \/ m.messageIndex >= Len(m.messages) THEN Aborted
  ELSE IF m.messageScrollOffset < 0 /\ viewerHeight(m) > 0 THEN Aborted
  ELSE Frame(<<"header", "divider", "message">>
               \o <<IF m.searchMode THEN "/input" ELSE "help">>)

\* View
View(m) ==
  IF ~m.ready THEN Frame(<<"Initializing...">>)
  ELSE IF m.state = StateFileList THEN viewFileList(m)
  ELSE IF m.viewMode = ViewModeMessage THEN viewMessageMode(m)
  ELSE viewJSONMode(m)

-----------------------------------------------------------------------------
(* The state machine *)

\* the Model the program holds between two events
Model ==
  [state |-> state, files |-> files, fileIndex |-> fileIndex,
   rawLines |-> rawLines, messages |-> messages,
   messageIndex |-> messageIndex, viewMode |-> viewMode,
   cursorLine |-> cursorLine, scrollOffset |-> scrollOffset,
   messageScrollOffset |-> messageScrollOffset,
   searchQuery |-> searchQuery, searchInput |-> searchInput,
   searchMode |-> searchMode, numBuffer |-> numBuffer, lastKey |-> lastKey,
   width |-> width, height |-> height, ready |-> ready, err |-> err]

\* the runtime stores the Model and the command Update returns
Store(r) ==
  /\ state' = r.m.state
  /\ files' = r.m.files
  /\ fileIndex' = r.m.fileIndex
  /\ rawLines' = r.m.rawLines
  /\ messages' = r.m.messages
  /\ messageIndex' = r.m.messageIndex
  /\ viewMode' = r.m.viewMode
  /\ cursorLine' = r.m.cursorLine
  /\ scrollOffset' = r.m.scrollOffset
  /\ messageScrollOffset' = r.m.messageScrollOffset
  /\ searchQuery' = r.m.searchQuery
  /\ searchInput' = r.m.searchInput
  /\ searchMode' = r.m.searchMode
  /\ numBuffer' = r.m.numBuffer
  /\ lastKey' = r.m.lastKey
  /\ width' = r.m.width
  /\ height' = r.m.height
  /\ ready' = r.m.ready
  /\ err' = r.m.err
  /\ cmd' = r.cmd
  /\ UNCHANGED <<input, output>>

\* the program holds the Model m and no command is pending
Holds(m) ==
  /\ state = m.state
  /\ files = m.files
  /\ fileIndex = m.fileIndex
  /\ rawLines = m.rawLines
  /\ messages = m.messages
  /\ messageIndex = m.messageIndex
  /\ viewMode = m.viewMode
  /\ cursorLine = m.cursorLine
  /\ scrollOffset = m.scrollOffset
  /\ messageScrollOffset = m.messageScrollOffset
  /\ searchQuery = m.searchQuery
  /\ searchInput = m.searchInput
  /\ searchMode = m.searchMode
  /\ numBuffer = m.numBuffer
  /\ lastKey = m.lastKey
  /\ width = m.width
  /\ height = m.height
  /\ ready = m.ready
  /\ err = m.err
  /\ cmd = "nil"

\* no text function is under study: nothing was given, nothing returned
NoInput == [line |-> <<>>]
NotYet == [step |-> 0, text |-> <<>>]

\* the program starts with the Model NewModel returns and no command
Init ==
  /\ \E fs \in FileLists : Holds(NewModel(fs))
  /\ input = NoInput
  /\ output = NotYet

\* s is the beginning of t
IsPrefix(s, t) == Len(s) <= Len(t) /\ SubSeq(t, 1, Len(s)) = s

\* the digits typed continue one of the counts of CountInputs
TypesCount(key) ==
  \E c \in CountInputs : IsPrefix(Append(numBuffer, key), c)

\* the characters typed continue one of the queries of SearchInputs
TypesQuery(key) ==
  \E q \in SearchInputs : IsPrefix(Append(searchInput, key), q)

\* a key event while the search prompt is open
SearchInputKey(key) ==
  /\ cmd = "nil"
  /\ searchMode
  /\ key \in SingleCharKeys => TypesQuery(key)
  /\ Store(updateKey(Model, key, "ok"))

\* a key event on the file list; Enter reads the selected file
FileListKey(key, outcome) ==
  /\ cmd = "nil"
  /\ ~searchMode
  /\ state = StateFileList
  /\ Store(updateKey(Model, key, outcome))

\* a key event in the viewer
ViewerKey(key) ==
  /\ cmd = "nil"
  /\ ~searchMode
  /\ state = StateViewer
  /\ (IsDigitKey(key) /\ ~(key = "0" /\ numBuffer = EmptyStr)) => TypesCount(key)
  /\ Store(updateKey(Model, key, "ok"))

\* a resize event
WindowSize(w, h) ==
  /\ cmd = "nil"
  /\ Store(updateSize(Model, w, h))

Next ==
  \/ \E key \in Keys : SearchInputKey(key)
  \/ \E key \in Keys, outcome \in OpenOutcomes : FileListKey(key, outcome)
  \/ \E key \in Keys : ViewerKey(key)
  \/ \E w \in Widths, h \in Heights : WindowSize(w, h)

Spec == Init /\ [][Next]_vars

-----------------------------------------------------------------------------
(* The text functions, each applied to every input of a bounded set while the
   program itself stays where NewModel left it *)

\* every byte string of at most n bytes over chars
Strings(chars, n) == UNION {[1..k -> chars] : k \in 0..n}

RECURSIVE Flatten(_)
\* the concatenation of a sequence of byte strings
Flatten(parts) ==
  IF parts = <<>> THEN <<>> ELSE parts[1] \o Flatten(Tail(parts))

programVars == <<state, files, fileIndex, rawLines, messages, messageIndex,
                 viewMode, cursorLine, scrollOffset, messageScrollOffset,
                 searchQuery, searchInput, searchMode, numBuffer, lastKey,
                 width, height, ready, err, cmd>>

\* a function returns text for the input
Returns(step, text) ==
  /\ output' = [step |-> step, text |-> text]
  /\ UNCHANGED input
  /\ UNCHANGED programVars

\* styled lines and queries for the search overlay
OverlayChars == {ESC, "[", "1", "?", "a", "A", LF, "C8", "BA"}
OverlayQueries ==
  {<<>>, <<"a">>, <<"A", "a">>, <<"1">>, <<"[", "1">>, <<"b">>}

InitOverlay ==
  /\ Holds(NewModel(<<>>))
  /\ input \in [line : Strings(OverlayChars, MaxLineLen), query : OverlayQueries]
  /\ output = NotYet

ApplyHighlightSearch ==
  /\ output.step = 0
  /\ Returns(1, HighlightSearch(input.line, input.query))

NextOverlay == ApplyHighlightSearch

SpecOverlay == InitOverlay /\ [][NextOverlay]_vars

\* lines for the JSON highlighter, put together from the pieces its scan
\* tells apart; colour says whether the terminal has colours
JSONPieces ==
  {<<"\"">>, <<"\\">>, <<":">>, <<" ">>, <<"[">>, <<"1">>,
   <<"t", "r", "u", "e">>, <<"t">>, <<ESC>>, <<"m">>}

JSONLines == {Flatten(parts) : parts \in Strings(JSONPieces, MaxPieces)}

InitHighlight ==
  /\ Holds(NewModel(<<>>))
  /\ input \in [line : JSONLines, colour : BOOLEAN]
  /\ output = NotYet

ApplyHighlightJSON ==
  /\ output.step = 0
  /\ Returns(1, HighlightJSON(input.line, input.colour))

NextHighlight == ApplyHighlightJSON

SpecHighlight == InitHighlight /\ [][NextHighlight]_vars

\* styled lines and widths for truncation and padding
TruncateChars == {ESC, "[", "~", "1", "a"}

InitTruncate ==
  /\ Holds(NewModel(<<>>))
  /\ input \in [line : Strings(TruncateChars, MaxStyledLen), width : 0..MaxWidth]
  /\ output = NotYet

ApplyTruncate ==
  /\ output.step = 0
  /\ Returns(1, truncateWithAnsi(input.line, input.width))

ApplyPad ==
  /\ output.step = 1
  /\ Returns(2, padOrTruncate(output.text, input.width))

NextTruncate == ApplyTruncate \/ ApplyPad

SpecTruncate == InitTruncate /\ [][NextTruncate]_vars

\* the content blocks given to renderBlock
Blocks ==
  [Type : {"text", "thinking", "tool_use", "tool_result", "plain", "image"},
   Content : {<<>>, <<"h", "i">>, <<"*", "*", "b", "*", "*">>,
              <<"a", "_", "b">>, <<"#", "1">>},
   Name : {"Bash"}]

\* the messages given to Message.Render
MessageInputs ==
  [Type : {"user", "assistant", "system", "summary", "customtool", ""},
   Subtype : {"", "info"},
   Content : Strings([Type : {"text", "tool_result", "plain"},
                      Content : {<<"h", "i">>, <<"a", "_", "b">>},
                      Name : {""}], MaxBlocks),
   IsMeta : BOOLEAN]

InitMessage ==
  /\ Holds(NewModel(<<>>))
  /\ input \in [msg : MessageInputs, width : {10, 80}, renders : BOOLEAN]
  /\ output = NotYet

ApplyMessageRender ==
  /\ output.step = 0
  /\ Returns(1, MessageRender(input.msg, input.width, input.renders))

NextMessage == ApplyMessageRender

SpecMessage == InitMessage /\ [][NextMessage]_vars

InitBlock ==
  /\ Holds(NewModel(<<>>))
  /\ input \in [block : Blocks, width : {20, 76}, renders : BOOLEAN]
  /\ output = NotYet

ApplyRenderBlock ==
  /\ output.step = 0
  /\ Returns(1, renderBlock(input.block, input.width, input.renders))

NextBlock == ApplyRenderBlock

SpecBlock == InitBlock /\ [][NextBlock]_vars

\* the texts given to the JSON decoders, put together from pieces
JSONTextPieces ==
  {<<"{", "\"", "a", "\"", ":", "1", "}">>, <<"{", "\"", "a", "\"", ":">>,
   <<"}">>, <<"[">>, <<"]">>, <<"1">>, <<"1", ",">>,
   <<"\"", "[", "1", "]", "\"">>, <<LF>>, <<" ">>}

InitJSON ==
  /\ Holds(NewModel(<<>>))
  /\ input \in [text : {Flatten(parts) :
                          parts \in Strings(JSONTextPieces, MaxTextPieces)}]
  /\ output = NotYet

ApplyToolResult ==
  /\ output.step = 0
  /\ Returns(1, renderBlock(toolResultBlock(input.text), 76, TRUE))

ApplyParseJSONLFile ==
  /\ output.step = 0
  /\ Returns(2, ParseJSONLFile(input.text))

NextJSON == ApplyToolResult \/ ApplyParseJSONLFile

SpecJSON == InitJSON /\ [][NextJSON]_vars

-----------------------------------------------------------------------------
(* Properties *)

lineCount == Len(rawLines)
messageCount == Len(messages)
InViewer == state = StateViewer /\ cmd = "nil"
InJSONView == InViewer /\ viewMode = ViewModeJSON
InMessageView == InViewer /\ viewMode = ViewModeMessage

\* a key event delivered to Update, whatever handler it is routed to
KeyEvent(key) ==
  \/ SearchInputKey(key)
  \/ \E outcome \in OpenOutcomes : FileListKey(key, outcome)
  \/ ViewerKey(key)

\* the value of the count buffer where it fits, for stating what a count means
BufferIsSmall == Len(numBuffer) <= 9
BufferValue == DecVal(numBuffer)

\* C1: in the viewer the cursor line is a line of the opened file:
\* 0 <= cursorLine < lineCount, and lineCount > 0.
C1_CursorLineInRange ==
  state = StateViewer =>
    /\ lineCount > 0
    /\ 0 <= cursorLine
    /\ cursorLine < lineCount

\* C1 witness: the cursor has been moved to the last line by a search or a
\* motion while a query is active.
C1_Witness ==
  /\ InJSONView
  /\ lineCount > 1
  /\ cursorLine = lineCount - 1
  /\ searchQuery # EmptyStr
  /\ ready

\* the navigation keys of JSON view that C2 names
C2_NavKeys == {"j", "k", "ctrl+d", "ctrl+u", "g", "G", "0", "n", "N"}

\* C2: after a navigation key or a search commit handled in JSON view, when
\* lineCount >= viewHeight, the cursor is inside the window the frame is drawn
\* with: scrollOffset <= cursorLine <= scrollOffset + viewHeight - 1.
C2_CursorInWindowAfterNavigation ==
  [][ ( /\ viewMode = ViewModeJSON
        /\ ready
        /\ \/ \E key \in C2_NavKeys : ViewerKey(key)
           \/ SearchInputKey("enter")
        /\ lineCount' >= viewerHeight(Model') )
      => /\ scrollOffset' <= cursorLine'
         /\ cursorLine' <= scrollOffset' + viewerHeight(Model') - 1 ]_vars

\* C3 as claimed: in the viewer 0 <= messageIndex < messageCount.
C3_MessageIndexInRange ==
  state = StateViewer => (0 <= messageIndex /\ messageIndex < messageCount)

\* C3 as amended: in the viewer, when the opened file has at least one
\* message, 0 <= messageIndex < messageCount.
C3_MessageIndexInRangeNonEmpty ==
  (state = StateViewer /\ messageCount > 0) =>
    (0 <= messageIndex /\ messageIndex < messageCount)

\* C3 witness: a motion has moved the selection to the last of several
\* messages.
C3_Witness ==
  /\ InMessageView
  /\ messageCount > 1
  /\ messageIndex = messageCount - 1

\* C4: in JSON view, with the digits of N in the count buffer, j moves
\* cursorLine to min(c + N, lineCount - 1) and k to max(c - N, 0), and the
\* buffer is empty afterwards; with an empty buffer the count is 1.
C4_CountedMotion ==
  [][ /\ ( (ViewerKey("j") /\ viewMode = ViewModeJSON) =>
           /\ numBuffer' = EmptyStr
           /\ cursorLine' =
                IF numBuffer = EmptyStr THEN Min(cursorLine + 1, lineCount - 1)
                ELSE IF BufferIsSmall
                  THEN Min(cursorLine + BufferValue, lineCount - 1)
                  ELSE lineCount - 1 )
      /\ ( (ViewerKey("k") /\ viewMode = ViewModeJSON) =>
           /\ numBuffer' = EmptyStr
           /\ cursorLine' =
                IF numBuffer = EmptyStr THEN Max(cursorLine - 1, 0)
                ELSE IF BufferIsSmall
                  THEN Max(cursorLine - BufferValue, 0)
                  ELSE 0 ) ]_vars

\* C5: "0" with an empty count buffer is go-to-top of the active view and
\* leaves the buffer empty; "0" with a non-empty buffer is appended to it and
\* moves nothing.
C5_ZeroKey ==
  [][ ViewerKey("0") =>
        IF numBuffer = EmptyStr
          THEN /\ numBuffer' = EmptyStr
               /\ IF viewMode = ViewModeJSON
                    THEN cursorLine' = 0 /\ scrollOffset' = 0
                    ELSE messageIndex' = 0
          ELSE /\ numBuffer' = Append(numBuffer, "0")
               /\ UNCHANGED <<cursorLine, scrollOffset, messageIndex,
                              messageScrollOffset>> ]_vars

\* C5 witness: "0" has been appended to a pending count in JSON view and the
\* cursor, away from the top, has not moved.
C5_Witness ==
  /\ InJSONView
  /\ numBuffer = <<"1", "0">>
  /\ cursorLine > 0
  /\ scrollOffset > 0

\* the keys C6 names: neither digits nor motion keys
C6_OtherKeys == {"tab", "g", "/", "n", "N", "q", "esc", "x"}

\* C6: with a pending count, a key that is neither a digit nor a motion key
\* leaves the count buffer empty and moves no cursor.
C6_OtherKeyClearsCount ==
  [][ \A key \in C6_OtherKeys :
        (ViewerKey(key) /\ numBuffer # EmptyStr) =>
          /\ numBuffer' = EmptyStr
          /\ UNCHANGED <<cursorLine, scrollOffset, messageIndex>> ]_vars

\* C7 as claimed: the second g of a gg in the viewer sets cursorLine and
\* scrollOffset to 0 and disarms the chord.
C7_ChordReturnsCursorLine ==
  [][ (ViewerKey("g") /\ lastKey = "g") =>
        cursorLine' = 0 /\ scrollOffset' = 0 /\ lastKey' = "" ]_vars

\* C7 as amended: a g arms the chord and moves nothing; the g that follows it
\* returns the active view to the top (cursorLine and scrollOffset to 0 in JSON
\* view, messageIndex and messageScrollOffset to 0 in Message view), leaves the
\* other view's position alone and disarms the chord.
C7_ChordReturnsActiveView ==
  [][ ViewerKey("g") =>
        IF lastKey = "g"
          THEN /\ lastKey' = ""
               /\ IF viewMode = ViewModeJSON
                    THEN /\ cursorLine' = 0 /\ scrollOffset' = 0
                         /\ UNCHANGED <<messageIndex, messageScrollOffset>>
                    ELSE /\ messageIndex' = 0 /\ messageScrollOffset' = 0
                         /\ UNCHANGED <<cursorLine, scrollOffset>>
          ELSE /\ lastKey' = "g"
               /\ UNCHANGED <<cursorLine, scrollOffset, messageIndex,
                              messageScrollOffset>> ]_vars

\* C7 witness: the first g has armed the chord in JSON view with the cursor
\* and the window away from the top, so the next g moves both.
C7_Witness ==
  /\ InJSONView
  /\ ~searchMode
  /\ lastKey = "g"
  /\ cursorLine > 0
  /\ scrollOffset > 0

\* C8: any key other than g clears the pending chord, in the viewer and in
\* the file list: after a key other than g that does not quit the program the
\* chord is not armed, so a single g cannot fire go-to-top.
C8_OtherKeyClearsChord ==
  [][ \A key \in Keys \ {"g"} :
        (KeyEvent(key) /\ cmd' = "nil") => lastKey' # "g" ]_vars

\* C9: Tab stays in the viewer, switches to the other view mode and changes
\* nothing else.
C9_TabTogglesOnly ==
  [][ ViewerKey("tab") =>
        /\ state' = StateViewer
        /\ viewMode' = IF viewMode = ViewModeJSON
                         THEN ViewModeMessage ELSE ViewModeJSON
        /\ UNCHANGED <<cursorLine, scrollOffset, messageIndex,
                       messageScrollOffset, searchQuery, searchInput,
                       searchMode, rawLines, messages, files, fileIndex,
                       width, height, ready, err, cmd>> ]_vars

\* C9 witness: Tab has brought up JSON view (a file opens in Message view)
\* while both views are away from their tops and a query is active.
C9_Witness ==
  /\ InJSONView
  /\ cursorLine > 0
  /\ scrollOffset > 0
  /\ messageIndex > 0
  /\ searchQuery # EmptyStr

AfterKey(key) == updateKey(Model, key, "ok").m

\* the lines of the opened file whose raw text contains q, case-insensitively
MatchingLines(q) ==
  {l \in 0..(lineCount - 1) : Contains(ToLower(rawLines[l + 1]), ToLower(q))}

\* how many lines after (before, for direction -1) the cursor line l lies, in
\* cyclic order; the cursor line itself is lineCount lines away
CyclicDistance(l, direction) ==
  IF l = cursorLine THEN lineCount
  ELSE IF direction > 0 THEN (l - cursorLine) % lineCount
  ELSE (cursorLine - l) % lineCount

\* the matching line nearest to the cursor in the direction
NearestMatch(q, direction) ==
  CHOOSE l \in MatchingLines(q) :
    \A k \in MatchingLines(q) :
      CyclicDistance(l, direction) <= CyclicDistance(k, direction)

\* C11: in every state in which the program runs (file list, JSON view,
\* Message view, search prompt open or not) a ctrl-c key event yields the
\* quit command.
C11_CtrlCQuits ==
  cmd = "nil" => updateKey(Model, "ctrl+c", "ok").cmd = "quit"

\* C12: committing a non-empty query with Enter, or pressing n, puts
\* cursorLine on the first matching line after the cursor in cyclic order;
\* N does the same backward; the cursor line itself is looked at last.
C12_SearchMovesToNextMatch ==
  /\ (cmd = "nil" /\ searchMode /\ searchInput # EmptyStr
        /\ MatchingLines(searchInput) # {})
       => AfterKey("enter").cursorLine = NearestMatch(searchInput, 1)
  /\ (InViewer /\ ~searchMode /\ searchQuery # EmptyStr
        /\ MatchingLines(searchQuery) # {})
       => /\ AfterKey("n").cursorLine = NearestMatch(searchQuery, 1)
          /\ AfterKey("N").cursorLine = NearestMatch(searchQuery, -1)

\* C12 witness: a query matching several lines has been committed, the cursor
\* is on the last line, and n wraps to line 0 while N goes to a line before.
C12_Witness ==
  /\ InViewer /\ ~searchMode
  /\ searchQuery = <<"N">>
  /\ cursorLine = lineCount - 1
  /\ AfterKey("n").cursorLine = 0
  /\ AfterKey("N").cursorLine > 0
  /\ AfterKey("N").cursorLine < cursorLine

\* C13: Escape at the search prompt closes the prompt, empties the input
\* buffer and leaves no search query active, also when a query had been
\* committed before.
C13_EscapeClearsQuery ==
  (cmd = "nil" /\ searchMode) =>
    /\ ~AfterKey("esc").searchMode
    /\ AfterKey("esc").searchInput = EmptyStr
    /\ AfterKey("esc").searchQuery = EmptyStr

Unmoved(r) ==
  /\ r.cursorLine = cursorLine
  /\ r.scrollOffset = scrollOffset
  /\ r.messageIndex = messageIndex
  /\ r.viewMode = viewMode
  /\ r.state = state
  /\ r.err = err

\* C15: a search with an empty query, or with a query no line contains,
\* changes nothing: Enter at the prompt, n and N leave cursorLine,
\* scrollOffset, messageIndex, the view mode and the screen as they were and
\* set no error.
C15_FruitlessSearchIsNoOp ==
  /\ (cmd = "nil" /\ searchMode
        /\ (searchInput = EmptyStr \/ MatchingLines(searchInput) = {}))
       => Unmoved(AfterKey("enter"))
  /\ (InViewer /\ ~searchMode
        /\ (searchQuery = EmptyStr \/ MatchingLines(searchQuery) = {}))
       => Unmoved(AfterKey("n")) /\ Unmoved(AfterKey("N"))

\* C15 witness: a query that no line contains has been committed away from
\* the first line.
C15_Witness ==
  /\ InViewer /\ ~searchMode
  /\ searchQuery = <<"g">>
  /\ MatchingLines(searchQuery) = {}
  /\ cursorLine > 0
  /\ scrollOffset > 0

\* the text function under study has returned
Returned == output.step > 0

\* C16: the search overlay never alters content: with the escape sequences
\* removed, by StripAnsi and by extractVisibleText alike, the overlaid text is
\* the text of the line it was given, for every styled line and every query.
C16_OverlayKeepsContent ==
  Returned =>
    /\ StripAnsi(output.text) = StripAnsi(input.line)
    /\ extractVisibleText(output.text) = extractVisibleText(input.line)

\* C16 witness: a line that carries an escape sequence of its own has been
\* given a highlight on a match in the other case.
C16_Witness ==
  /\ Returned
  /\ input.query = <<"a">>
  /\ extractVisibleText(input.line) = <<"A">>
  /\ input.line # <<"A">>
  /\ output.text # input.line

\* the query occurs in the visible text of the line, case-insensitively
Occurs(q, line) == Contains(ToLower(extractVisibleText(line)), ToLower(q))

\* C17: the overlay returns the line byte for byte when the query is empty
\* or does not occur, case-insensitively, in the visible text of the line.
C17_OverlayIdentityWithoutMatch ==
  (Returned /\ (input.query = <<>> \/ ~Occurs(input.query, input.line)))
    => output.text = input.line

\* C17 witness: the query occurs in the bytes of the line, but only inside an
\* escape sequence, so not in its visible text; the line came back as given.
C17_Witness ==
  /\ Returned
  /\ input.query = <<"[", "1">>
  /\ Contains(input.line, input.query)
  /\ ~Occurs(input.query, input.line)
  /\ output.text = input.line

RECURSIVE highlightMask(_, _)
\* for each visible byte of an overlaid text, whether it lies between a
\* highlight start and the next reset
highlightMask(text, on) ==
  IF text = <<>> THEN <<>>
  ELSE IF HasPrefix(text, HighlightStart)
    THEN highlightMask(Drop(text, Len(HighlightStart)), TRUE)
  ELSE IF HasPrefix(text, AnsiReset)
    THEN highlightMask(Drop(text, Len(AnsiReset)), FALSE)
  ELSE IF getAnsiSequence(text) # <<>>
    THEN highlightMask(Drop(text, Len(getAnsiSequence(text))), on)
  ELSE <<on>> \o highlightMask(Tail(text), on)

RECURSIVE highlightStarts(_, _)
\* the visible indices (0-based) in front of which a highlight start stands
highlightStarts(text, visibleIdx) ==
  IF text = <<>> THEN {}
  ELSE IF HasPrefix(text, HighlightStart)
    THEN {visibleIdx}
           \cup highlightStarts(Drop(text, Len(HighlightStart)), visibleIdx)
  ELSE IF getAnsiSequence(text) # <<>>
    THEN highlightStarts(Drop(text, Len(getAnsiSequence(text))), visibleIdx)
  ELSE highlightStarts(Tail(text), visibleIdx + 1)

\* the visible indices (0-based) at which q, given in lower case, occurs in
\* text in any case
Occurrences(text, q) ==
  {p \in 0..(Len(text) - Len(q)) :
     ToLower(SubSeq(text, p + 1, p + Len(q))) = q}

\* C18: the overlay highlights all occurrences of the query, in any case:
\* every occurrence that no highlighted occurrence to its left overlaps lies
\* inside a highlighted span, and a line whose k occurrences are pairwise
\* disjoint gets exactly k highlight starts.
C18_AllOccurrencesHighlighted ==
  (Returned /\ input.query # <<>>) =>
    LET q == ToLower(input.query)
        occ == Occurrences(extractVisibleText(input.line), q)
        starts == highlightStarts(output.text, 0)
        mask == highlightMask(output.text, FALSE)
    IN  /\ \A p \in occ :
             (~\E h \in starts : h < p /\ p < h + Len(q))
               => \A i \in p..(p + Len(q) - 1) : mask[i + 1]
        /\ (\A p1, p2 \in occ : p1 < p2 => p1 + Len(q) <= p2)
             => Cardinality(starts) = Cardinality(occ)

C20_PadOfTruncateHasWidth ==
  output.step = 2 => Width(output.text) = input.width

\* the frame shows the recorded error
ShowsError(frame) == \E i \in 1..Len(frame.parts) : frame.parts[i] = "error"

\* C22: when Enter on the file list fails to read the selected file, the
\* screen stays the file list, the error is recorded, and the frame drawn
\* next shows it; composing that frame does not fail.
C22_OpenFailureIsShown ==
  [][((FileListKey("enter", "failLines") \/ FileListKey("enter", "failMessages"))
        /\ Len(files) > 0)
       => /\ state' = StateFileList
          /\ err' # "nil"
          /\ ~View(Model)'.aborted
          /\ ShowsError(View(Model)')]_vars

\* C23: composing the frame never fails, for every terminal size a resize
\* event has delivered and every state the program reaches.
C23_RenderingNeverAborts ==
  cmd = "nil" => ~View(Model).aborted

\* C25: Enter on a non-empty file list, when both decoders succeed, enters the
\* viewer in Message view with cursorLine, scrollOffset, messageIndex and
\* messageScrollOffset at 0 and no search query, wherever they were before.
C25_OpenResetsPositions ==
  (cmd = "nil" /\ ~searchMode /\ state = StateFileList /\ Len(files) > 0) =>
    LET opened == updateKey(Model, "enter", "ok").m
    IN  /\ opened.state = StateViewer
        /\ opened.viewMode = ViewModeMessage
        /\ opened.cursorLine = 0
        /\ opened.scrollOffset = 0
        /\ opened.messageIndex = 0
        /\ opened.messageScrollOffset = 0
        /\ opened.searchQuery = EmptyStr

\* C25 witness: back on the file list with the positions the viewer was left
\* at, in JSON view.
C25_Witness ==
  /\ state = StateFileList /\ cmd = "nil" /\ ~searchMode
  /\ Len(files) > 0
  /\ viewMode = ViewModeJSON
  /\ cursorLine > 0
  /\ scrollOffset > 0
  /\ messageIndex > 0

\* the styles renderBadge draws a badge in
BadgeStyles ==
  {"userBadgeStyle", "assistantBadgeStyle", "systemBadgeStyle",
   "summaryBadgeStyle", "unknownBadgeStyle"}

\* C21: a rendered message begins with a badge that holds its kind; a warning
\* glyph follows the badge exactly when the kind is none of user, assistant,
\* system and summary, and such a kind is drawn with the generic badge; every
\* message is rendered.
C21_BadgeAndWarning ==
  Returned =>
    LET out == output.text
        kind == input.msg.Type
        recognized == kind \in {"user", "assistant", "system", "summary"}
    IN  /\ Len(out) >= 2
        /\ out[1].via \in BadgeStyles
        /\ \E i \in 1..Len(out[1].text) : out[1].text[i] = kind
        /\ recognized => \A i \in 1..Len(out) : out[i].via # "warningStyle"
        /\ ~recognized =>
             /\ out[1].via = "unknownBadgeStyle"
             /\ Len(out) >= 4
             /\ out[2] = Written(<<" ">>)
             /\ out[3].via = "warningStyle"
             /\ out[4] = Written(<<LF>>)
             /\ \A i \in 4..Len(out) : out[i].via # "warningStyle"

\* an unrecognized kind has been rendered, with the warning after its badge
C21_Witness ==
  /\ Returned
  /\ input.msg.Type = "customtool"
  /\ Len(output.text) >= 3
  /\ output.text[1].via = "unknownBadgeStyle"
  /\ output.text[3].via = "warningStyle"

\* C27: a user message with a tool_result block anywhere among its blocks is
\* rendered with the two-part badge, user then tool_result; every other user
\* message is rendered with the single user badge.
C27_UserToolResultBadge ==
  (Returned /\ input.msg.Type = "user") =>
    LET out == output.text
        blocks == input.msg.Content
        hasToolResult ==
          \E i \in 1..Len(blocks) : blocks[i].Type = "tool_result"
    IN  /\ hasToolResult =>
             /\ Len(out) >= 4
             /\ out[1] = Styled("userBadgeStyle", <<"user">>)
             /\ out[2] = Written(<<" ">>)
             /\ out[3] = Styled("toolResultHeaderStyle", <<"tool_result">>)
             /\ out[4] = Written(<<LF>>)
        /\ ~hasToolResult =>
             /\ Len(out) >= 2
             /\ out[1].via = "userBadgeStyle"
             /\ out[1].text[1] = "user"
             /\ out[2] = Written(<<LF>>)

\* a user message whose only tool_result block is its last one has been
\* rendered with the two-part badge
C27_Witness ==
  /\ Returned
  /\ input.msg.Type = "user"
  /\ Len(input.msg.Content) = MaxBlocks
  /\ input.msg.Content[MaxBlocks].Type = "tool_result"
  /\ \A i \in 1..(MaxBlocks - 1) : input.msg.Content[i].Type = "text"
  /\ output.text[3] = Styled("toolResultHeaderStyle", <<"tool_result">>)

\* C28: a text block and a plain block alike go to the markdown formatter
\* exactly when the body holds a markdown signal, and are word-wrapped at the
\* width otherwise (the formatter being one that renders).
C28_TextAndPlainAlike ==
  (/\ Returned
   /\ input.block.Type \in {"text", "plain"}
   /\ input.block.Content # <<>>
   /\ input.renders) =>
    output.text =
      <<[via |-> IF looksLikeMarkdown(input.block.Content)
                   THEN "glamour" ELSE "wordwrap",
         text |-> input.block.Content, width |-> input.width]>>

\* C28, amended: a text block goes to the markdown formatter exactly when the
\* body holds a markdown signal and the formatter renders it, and is
\* word-wrapped at the width otherwise; a plain block is always word-wrapped
\* at the width.
C28_TextMarkdownPlainWrapped ==
  (/\ Returned
   /\ input.block.Type \in {"text", "plain"}
   /\ input.block.Content # <<>>) =>
    output.text =
      <<[via |-> IF /\ input.block.Type = "text"
                    /\ looksLikeMarkdown(input.block.Content)
                    /\ input.renders
                   THEN "glamour" ELSE "wordwrap",
         text |-> input.block.Content, width |-> input.width]>>

\* a plain block with a markdown signal has been word-wrapped, and a text
\* block would have gone to the formatter
C28_Witness ==
  /\ Returned
  /\ input.block.Type = "plain"
  /\ input.renders
  /\ Contains(input.block.Content, <<"*", "*">>)
  /\ output.text[1].via = "wordwrap"
  /\ renderBlock([input.block EXCEPT !.Type = "text"], input.width, TRUE)[1].via
       = "glamour"

\* the number of backslashes that end at byte k (1-based) of s
RECURSIVE BackslashesBefore(_, _)
BackslashesBefore(s, k) ==
  IF k >= 1 /\ s[k] = "\\" THEN 1 + BackslashesBefore(s, k - 1) ELSE 0

\* the quotes (1-based) that can close the string opened by the first byte of
\* s: those after an even number of backslashes
ClosingQuotes(s) ==
  {k \in 2..Len(s) :
     /\ s[k] = "\""
     /\ BackslashesBefore(s, k - 1) % 2 = 0}

\* the colour sequence, the text and the reset of a style
InStyle(style, str) ==
  <<ESC, "[", "3", "8", ";", "5", ";">> \o style \o <<"m">> \o str \o AnsiReset

\* C29: a line that opens with a quote is highlighted, on a terminal with
\* colours, as a string token followed by the rest: the token ends at the first
\* quote not escaped by a backslash, or at the end of the line when there is
\* none, and it is in the key style exactly when the first byte after the
\* closing quote that is not whitespace is a colon, in the string style
\* otherwise.
C29_KeyIffColonFollows ==
  (/\ Returned
   /\ input.colour
   /\ Len(input.line) > 0
   /\ input.line[1] = "\"") =>
    LET line == input.line
        closing == ClosingQuotes(line)
        close == IF closing = {} THEN 0
                 ELSE CHOOSE k \in closing : \A c \in closing : k <= c
        token == IF close = 0 THEN line ELSE SubSeq(line, 1, close)
        colonFollows ==
          /\ close # 0
          /\ \E k \in (close + 1)..Len(line) :
               /\ line[k] = ":"
               /\ \A j \in (close + 1)..(k - 1) : line[j] \in {" ", "\t"}
    IN  /\ HasPrefix(output.text,
                     InStyle(IF colonFollows THEN keyStyle ELSE strStyle, token))
        /\ output.text =
             InStyle(IF colonFollows THEN keyStyle ELSE strStyle, token)
               \o HighlightJSON(Drop(line, Len(token)), TRUE)

\* a string followed by a space and a colon has been styled as a key
C29_Witness ==
  /\ Returned
  /\ input.colour
  /\ input.line = <<"\"", "\"", " ", ":">>
  /\ output.text = InStyle(keyStyle, <<"\"", "\"">>) \o <<" ", ":">>

RECURSIVE insertedMarks(_, _)
\* the highlight starts and resets of an overlaid line, in their order, each
\* with the offset (0-based) of the byte of the line it stands in front of
insertedMarks(text, offset) ==
  IF text = <<>> THEN <<>>
  ELSE IF HasPrefix(text, HighlightStart)
    THEN <<[kind |-> "start", at |-> offset]>>
           \o insertedMarks(Drop(text, Len(HighlightStart)), offset)
  ELSE IF HasPrefix(text, AnsiReset)
    THEN <<[kind |-> "reset", at |-> offset]>>
           \o insertedMarks(Drop(text, Len(AnsiReset)), offset)
  ELSE insertedMarks(Tail(text), offset + 1)

RECURSIVE VisibleOffsets(_, _)
\* the offsets (0-based) of the bytes of line, from offset i, that lie outside
\* its escape sequences
VisibleOffsets(line, i) ==
  IF i >= Len(line) THEN {}
  ELSE IF getAnsiSequence(Drop(line, i)) # <<>>
    THEN VisibleOffsets(line, i + Len(getAnsiSequence(Drop(line, i))))
  ELSE {i} \cup VisibleOffsets(line, i + 1)

\* C30: in an overlaid line the highlight starts and resets alternate, a start
\* first and a reset last; each start stands in front of the first byte of an
\* occurrence of the query in the visible text, and its reset behind the last
\* byte of that occurrence, as many visible bytes on as the query is long.
C30_StartsAndResetsAlternate ==
  (/\ Returned
   /\ input.query # <<>>
   /\ \A i \in 1..Len(input.line) : input.line[i] # LF) =>
    LET q == ToLower(input.query)
        marks == insertedMarks(output.text, 0)
        visible == VisibleOffsets(input.line, 0)
        VisibleIdx(k) == Cardinality({v \in visible : v < k})
    IN  /\ Len(marks) % 2 = 0
        /\ \A i \in 1..Len(marks) :
             marks[i].kind = IF i % 2 = 1 THEN "start" ELSE "reset"
        /\ \A i \in {j \in 1..(Len(marks) - 1) : j % 2 = 1} :
             LET first == marks[i].at
                 last == marks[i + 1].at - 1
             IN  /\ first \in visible
                 /\ VisibleIdx(first)
                      \in Occurrences(extractVisibleText(input.line), q)
                 /\ last \in visible
                 /\ VisibleIdx(last) = VisibleIdx(first) + Len(q) - 1

RECURSIVE Unquoted(_)
\* a text with every quoted string in it replaced by the one byte S
Unquoted(s) ==
  IF s = <<>> THEN <<>>
  ELSE IF s[1] = "\"" /\ Index(Tail(s), <<"\"">>) # -1
    THEN <<"S">> \o Unquoted(Drop(s, Index(Tail(s), <<"\"">>) + 2))
  ELSE <<s[1]>> \o Unquoted(Tail(s))

\* how many of the bytes of s are in the set
CountIn(s, set) == Cardinality({i \in 1..Len(s) : s[i] \in set})

\* a text is pretty-printed with the indent of so many spaces: every line is
\* indented by the indent times its depth in the brackets, a bracket that
\* opens a non-empty array or object ends its line, a comma ends its line,
\* and the only other space is the one behind a colon
IsPretty(text, spaces) ==
  LET lines == Split(text)
      plain == [i \in 1..Len(lines) |-> Unquoted(lines[i])]
      body(i) == TrimLeft(plain[i])
      opened(i) == CountIn(plain[i], {"[", "{"}) - CountIn(plain[i], {"]", "}"})
      RECURSIVE depthBefore(_)
      depthBefore(i) == IF i <= 1 THEN 0 ELSE depthBefore(i - 1) + opened(i - 1)
      depth(i) == IF body(i) # <<>> /\ body(i)[1] \in {"]", "}"}
                    THEN depthBefore(i) - 1 ELSE depthBefore(i)
  IN  \A i \in 1..Len(lines) :
        /\ body(i) # <<>>
        /\ Len(plain[i]) - Len(body(i)) = spaces * depth(i)
        /\ \A n \in 1..Len(body(i)) :
             /\ body(i)[n] = "," => n = Len(body(i))
             /\ body(i)[n] = ":" =>
                  /\ n + 1 < Len(body(i))
                  /\ body(i)[n + 1] = " "
                  /\ body(i)[n + 2] # " "
             /\ body(i)[n] = " " => (n > 1 /\ body(i)[n - 1] = ":")
             /\ body(i)[n] = "[" =>
                  (n = Len(body(i)) \/ body(i)[n + 1] = "]")
             /\ body(i)[n] = "{" =>
                  (n = Len(body(i)) \/ body(i)[n + 1] = "}")

\* C24: the content of a tool_result block is rendered under the fixed header
\* as it is stored; content that is a JSON text is stored pretty-printed with
\* the indent of 4 spaces, holding the value the content holds, and content
\* that is no JSON text is stored as it is.
C24_ToolResultPrettyOrRaw ==
  output.step = 1 =>
    LET raw == input.text
        out == output.text
    IN  /\ Len(out) = 3
        /\ out[1] = Styled("toolResultHeaderStyle", <<"Result">>)
        /\ out[2] = Written(<<LF>>)
        /\ out[3].via = ""
        /\ IF Unmarshal(raw).ok
             THEN /\ IsPretty(out[3].text, 4)
                  /\ Unmarshal(out[3].text).ok
                  /\ Unmarshal(out[3].text).v = Unmarshal(raw).v
             ELSE out[3].text = raw

\* the content {"a":1} has been rendered over three lines, "a": 1 indented by
\* four spaces, and its compact form is not in the output
C24_Witness ==
  /\ output.step = 1
  /\ input.text = <<"{", "\"", "a", "\"", ":", "1", "}">>
  /\ output.text[3].text =
       <<"{", LF, " ", " ", " ", " ", "\"", "a", "\"", ":", " ", "1", LF, "}">>
  /\ ~Contains(output.text[3].text, <<"\"", "a", "\"", ":", "1">>)

RECURSIVE Records(_, _)
\* the records of a decoded file: its lines, cut at every empty line; group
\* is the record being collected
Records(lines, group) ==
  IF lines = <<>> THEN <<group>>
  ELSE IF lines[1] = <<>> THEN <<group>> \o Records(Tail(lines), <<>>)
  ELSE Records(Tail(lines), Append(group, lines[1]))

C31_TruncateKeepsVisiblePrefix ==
  (output.step = 1 /\ input.width > 0) =>
    LET s == input.line
        out == output.text
        kept == SubSeq(out, 1, Len(out) - Len(AnsiReset))
        visible == extractVisibleText(s)
    IN  /\ Len(out) >= Len(AnsiReset)
        /\ Drop(out, Len(kept)) = AnsiReset
        /\ HasPrefix(s, kept)
        /\ extractVisibleText(kept)
             = SubSeq(visible, 1, Min(input.width, Len(visible)))
        /\ Len(extractVisibleText(out)) <= input.width

\* C32: in the viewer ctrl+d moves the cursor of the active view forward by
\* half the viewer height, up to the last line or message, and ctrl+u backward
\* by as much, down to 0; for every terminal height ctrl+d never moves the
\* cursor backward and ctrl+u never forward.
C32_HalfPageMoves ==
  (InViewer /\ ~searchMode) =>
    LET half == GoDiv(height - ViewerChrome, 2)
        down == AfterKey("ctrl+d")
        up == AfterKey("ctrl+u")
    IN  /\ InJSONView =>
             /\ down.cursorLine >= cursorLine
             /\ up.cursorLine <= cursorLine
             /\ down.cursorLine = Min(cursorLine + half, lineCount - 1)
             /\ up.cursorLine = Max(cursorLine - half, 0)
        /\ (InMessageView /\ messageCount > 0) =>
             /\ down.messageIndex >= messageIndex
             /\ up.messageIndex <= messageIndex
             /\ down.messageIndex = Min(messageIndex + half, messageCount - 1)
             /\ up.messageIndex = Max(messageIndex - half, 0)

\* C33: each view of the viewer owns its cursor: a key handled while Message
\* view is active, a search commit and n and N among them, leaves cursorLine
\* and scrollOffset as they are, and a key handled while JSON view is active
\* leaves messageIndex and messageScrollOffset as they are.
C33_ViewsKeepOwnCursor ==
  InViewer =>
    \A key \in Keys :
      /\ InMessageView =>
           /\ AfterKey(key).cursorLine = cursorLine
           /\ AfterKey(key).scrollOffset = scrollOffset
      /\ InJSONView =>
           /\ AfterKey(key).messageIndex = messageIndex
           /\ AfterKey(key).messageScrollOffset = messageScrollOffset

\* C34: in every reachable state, whatever keys and resize events led to it,
\* the scroll offset of the JSON view is not negative and not below the
\* cursor line: 0 <= scrollOffset <= cursorLine.
C34_ScrollAtOrAboveCursor ==
  0 <= scrollOffset /\ scrollOffset <= cursorLine

\* the JSON view has been scrolled down and the cursor stands below the first
\* line drawn, in a terminal that has been resized
C34_Witness ==
  /\ InJSONView
  /\ ready
  /\ 0 < scrollOffset
  /\ scrollOffset < cursorLine

\* C35: no selection index is ever negative: in every reachable state, with an
\* empty file list and with a file of no messages too, fileIndex >= 0 and
\* messageIndex >= 0, and with a non-empty file list fileIndex < fileCount.
C35_IndicesNeverNegative ==
  /\ fileIndex >= 0
  /\ messageIndex >= 0
  /\ Len(files) > 0 => fileIndex < Len(files)

\* C36: the search prompt is open only inside the viewer: in every reachable
\* state searchMode implies that the screen is the viewer; so a key pressed on
\* the file list goes to the file-list handler, and no key changes the screen
\* while the prompt is open.
C36_SearchPromptOnlyInViewer ==
  /\ searchMode => state = StateViewer
  /\ (state = StateFileList /\ cmd = "nil") =>
       \A key \in Keys : \A outcome \in OpenOutcomes :
         updateKey(Model, key, outcome) = handleFileListKeys(Model, key, outcome)
  /\ (searchMode /\ cmd = "nil") =>
       \A key \in Keys : AfterKey(key).state = state

\* the search prompt is open in the viewer with text typed into it
C36_Witness ==
  /\ searchMode
  /\ state = StateViewer
  /\ searchInput # EmptyStr
  /\ cmd = "nil"

\* the cursor line after the two keys first and second, pressed in that order
AfterKeys(first, second) ==
  updateKey(updateKey(Model, first, "ok").m, second, "ok").m

\* C37: with a non-empty query active and cursorLine on a line that matches
\* it, n followed by N, and N followed by n, return cursorLine to that same
\* line.
C37_NextPrevInverse ==
  (InViewer /\ ~searchMode /\ searchQuery # EmptyStr
     /\ cursorLine \in MatchingLines(searchQuery))
    => /\ AfterKeys("n", "N").cursorLine = cursorLine
       /\ AfterKeys("N", "n").cursorLine = cursorLine

\* C37 witness: the cursor is on one of several matching lines, n and N go
\* to two other lines, and the opposite key comes back from each.
C37_Witness ==
  /\ InViewer /\ ~searchMode /\ searchQuery # EmptyStr
  /\ cursorLine \in MatchingLines(searchQuery)
  /\ AfterKey("n").cursorLine # cursorLine
  /\ AfterKey("N").cursorLine # cursorLine
  /\ AfterKey("n").cursorLine # AfterKey("N").cursorLine
  /\ AfterKeys("n", "N").cursorLine = cursorLine
  /\ AfterKeys("N", "n").cursorLine = cursorLine

\* C38: in every reachable JSON-view state with viewer height >= 1 (right
\* after a resize, after a Tab, after an n or N that found nothing) the cursor
\* line is one of the lines the left pane draws:
\* scrollOffset <= cursorLine < scrollOffset + viewerHeight.
C38_CursorAlwaysDrawn ==
  (InJSONView /\ viewerHeight(Model) >= 1) =>
    /\ scrollOffset <= cursorLine
    /\ cursorLine < scrollOffset + viewerHeight(Model)

\* the JSON lines and the messages the model holds were decoded from one file
\* of the list, or are the empty ones NewModel starts with
FromSameFile(m) ==
  \/ m.rawLines = <<>> /\ m.messages = <<>>
  \/ \E i \in 1..Len(m.files) :
       /\ m.rawLines = DecodedLines(m.files[i])
       /\ m.messages = DecodedMessages(m.files[i])

\* C39: when either decoding step of Open returns an error, rawLines (and
\* with it the highlighted lines, which are computed from the same content),
\* messages, cursorLine, scrollOffset, messageIndex, view mode and
\* searchQuery keep the values they had before the key and only the error
\* field changes; the JSON lines and the messages always come from the same
\* file.
C39_FailedOpenChangesOnlyErr ==
  /\ (state = StateFileList /\ ~searchMode /\ cmd = "nil" /\ Len(files) > 0)
       => \A outcome \in {"failLines", "failMessages"} :
            LET after == updateKey(Model, "enter", outcome).m
            IN  /\ after.err = "error"
                /\ after = [Model EXCEPT !.err = "error"]
  /\ FromSameFile(Model)

====
